---- MODULE Spec2Model ----
(***************************************************************************)
(* Debaite: the debate orchestrator (backend/debates/base.py), the         *)
(* moderator policy (backend/debates/models/moderator.py) and the          *)
(* position-change evaluator (backend/debates/models/participant.py).      *)
(*                                                                         *)
(* Spec      : Debate.run_generator driven by Debate.step, one action per  *)
(*             block of code between two suspension points of the          *)
(*             generator (pc is the generator's position).                 *)
(* SpecDecide: Moderator.decide_intervention as a function of its inputs.  *)
(* SpecEval  : Participant.check_change_position applied repeatedly to one *)
(*             participant, for every configuration of the thresholds.     *)
(*                                                                         *)
(* Numbers: confidences and deltas are in hundredths (0.6 is 60).          *)
(* Optional values are sets of at most one element ({} is None).           *)
(***************************************************************************)
EXTENDS Integers, Sequences, FiniteSets, TLC

VARIABLES
    \* ---- Debate object (base.py) ----
    participants,          \* self.participants: 1..N -> Debater record
    moderator,             \* self.moderator: {} or {Moderator record}
    interventions,         \* self.interventions (live transcript)
    full_transcript,       \* self.full_transcript
    moderator_stats,       \* self.moderator_stats
    position_changes_log,  \* self.position_changes_log
    evaluation_data,       \* self.evaluation_data
    accumulated_system_cost, \* number of summarization costs added
    settings,              \* total_rounds, total_turns, max letters, allowed positions, environment
    \* ---- generator frame of run_generator ----
    pc,                    \* position of the generator
    round_num, turn_num,   \* loop variables
    p_idx,                 \* index of p in `for p in self.participants`
    debate_active,
    pend,                  \* (action, target, reason) returned by decide_intervention
    ev,                    \* locals of _evaluate: participant_scores, votes, best/worst ids
    \* ---- observation ----
    ret,                   \* what the latest call of step returned / raised
    trace,                 \* events yielded and external calls made, in order
    incidents,             \* non-default external outcomes still allowed in this run
    result_path,           \* {} or {path}: the persisted DebateResult
    \* ---- Moderator.decide_intervention on its own ----
    dIn, dOut,
    \* ---- Participant.check_change_position on its own ----
    eP, eEnv, eOut, eCalls,
    \* ---- run_batch.main ----
    batch,                 \* reps, args.parallel, args.workers, position of main
    futs,                  \* run i -> state of run_single_debate(i, ...) and its result
    successful,            \* the list `successful`
    report,                \* {} or {result_paths handed to DebateBatchSummarizer}
    \* ---- Participant._execute_llm_call ----
    brain,                 \* self.brain
    attempts,              \* the local `attempts`
    providers,             \* provider_config, API keys of the environment, AVAILABLE_BRAINS
    llm                    \* position in the loop, how the call ended, completion calls made

debateVars == <<participants, moderator, interventions, full_transcript, moderator_stats,
                position_changes_log, evaluation_data, accumulated_system_cost, settings>>
genVars    == <<pc, round_num, turn_num, p_idx, debate_active, pend, ev>>
obsVars    == <<ret, trace, incidents, result_path>>
mainVars   == <<debateVars, genVars, obsVars>>
decideVars == <<dIn, dOut>>
evalVars   == <<eP, eEnv, eOut, eCalls>>
batchVars  == <<batch, futs, successful, report>>
callVars   == <<brain, attempts, providers, llm>>
otherVars  == <<batchVars, callVars>>
vars       == <<mainVars, decideVars, evalVars, otherVars>>

-----------------------------------------------------------------------------
(* Bounds of the model *)

\* participants * rounds * turns of a debate is at most MaxSlots
MaxSlots == 6
\* external outcomes other than the default one (moderator judgment NONE, generation
\* succeeds with a short text, delta 0, compression fails, vote parses) per run
MaxIncidents == 2
\* participants of a debate
MaxParticipants == 3
\* MAX_STRIKES_FOR_VETO is drawn from 1..MaxStrikesCfg
MaxStrikesCfg == 2
\* activeCount handed to decide_intervention is drawn from 0..MaxActive
MaxActive == 3
\* evaluations of one participant in SpecEval
MaxEvals == 3
\* entries of the live transcript when _summarize_history is called in SpecSummarize
MaxHistory == 12
\* repetitions of a batch and worker threads of its pool in SpecBatch
MaxReps == 3
MaxWorkers == 2

-----------------------------------------------------------------------------
(* Enumerations and small helpers *)

NONE      == "NONE"
INTERVENE == "INTERVENE"
SKIP      == "SKIP"
VETO      == "VETO"
STOP      == "STOP"
SANCTION  == "SANCTION"
LIMIT     == "LIMIT"
ModeratorAction == {NONE, INTERVENE, SKIP, VETO, STOP, SANCTION, LIMIT}

OPEN_MINDED  == "open_minded"
NEUTRAL      == "neutral"
CLOSE_MINDED == "close_minded"
MindsetType  == {OPEN_MINDED, NEUTRAL, CLOSE_MINDED}

\* Intervention.participant: None, the moderator object, or participants[i]
NoAuthor  == 0
ModAuthor == 0 - 1

Max(a, b) == IF a >= b THEN a ELSE b
Min(a, b) == IF a <= b THEN a ELSE b
Last(s)   == s[Len(s)]
\* the element of an optional value
The(S)    == CHOOSE x \in S : TRUE

SYSTEM_NAME == "SYSTEM"

-----------------------------------------------------------------------------
(* Intervention (models/intervention.py). The text is kept as what the code  *)
(* puts into it: its kind, its length, and for a moderator message the       *)
(* action of the suffix, the inserted disclaimer and the penalty note.       *)

Intervention(participant, pname, kind, length, pos, action, disclaimer, penalty) ==
    [participant |-> participant, pname |-> pname, kind |-> kind, len |-> length,
     pos |-> pos, action |-> action, disclaimer |-> disclaimer, penalty |-> penalty]

\* the name without the guard for an entry that has no participant
SpeakerNameUnguarded(i) == i.pname

\* i.participant.name if i.participant else "SYSTEM"
SpeakerName(i) == IF i.participant = NoAuthor THEN SYSTEM_NAME ELSE i.pname

-----------------------------------------------------------------------------
(* Moderator.decide_intervention *)

\* What the external judgment call can give back: it raises, or returns a text with
\* fewer than three |-separated parts, or a text whose first part is `token`.
ExactTokens  == ModeratorAction
PrefixTokens == {"ACTION: VETO", "DECISION STOP"}
SniffTokens  == {"I INTERVENE", "SANCTION AND INTERVENE", "SANCTION HIM",
                 "LIMIT OR SANCTION", "LIMIT HIM", "VETOED", "SKIP HIM", "BAN"}
Tokens       == ExactTokens \cup PrefixTokens \cup SniffTokens
Judgments    == {[kind |-> "raise", token |-> NONE], [kind |-> "short", token |-> NONE]}
                \cup {[kind |-> "ok", token |-> t] : t \in Tokens}

\* re.sub(r"^(ACTION|DECISION)[:\s]*", "", raw_action).strip()
StripActionPrefix(token) ==
    CASE token = "ACTION: VETO"  -> VETO
      [] token = "DECISION STOP" -> STOP
      [] OTHER                   -> token

\* `"INTERVENE" in raw_action`, ...
ContainsINTERVENE(token) == token \in {INTERVENE, "I INTERVENE", "SANCTION AND INTERVENE"}
ContainsSANCTION(token)  == token \in {SANCTION, "SANCTION AND INTERVENE", "SANCTION HIM",
                                      "LIMIT OR SANCTION"}
ContainsLIMIT(token)     == token \in {LIMIT, "LIMIT OR SANCTION", "LIMIT HIM"}

\* moderator.py 112-125: ModeratorAction(raw_action), else keyword sniffing, else NONE
ParseAction(token) ==
    LET raw_action == StripActionPrefix(token) IN
    IF raw_action \in ModeratorAction THEN raw_action
    ELSE IF ContainsINTERVENE(raw_action) THEN INTERVENE
    ELSE IF ContainsSANCTION(raw_action) THEN SANCTION
    ELSE IF ContainsLIMIT(raw_action) THEN LIMIT
    ELSE NONE

\* moderator.py 135-150: the capability downgrades, in the order of the code
DowngradeVeto(self, action) ==
    IF action = VETO /\ ~self.allowed_to_veto_participant THEN SANCTION ELSE action
DowngradeSanction(self, action) ==
    IF action = SANCTION /\ ~self.allowed_to_skip_turn THEN INTERVENE ELSE action
DowngradeSkip(self, action) ==
    IF action = SKIP /\ ~self.allowed_to_skip_turn THEN INTERVENE ELSE action
DowngradeStop(self, action) ==
    IF action = STOP /\ ~self.allowed_to_stop_debate THEN INTERVENE ELSE action
DowngradeIntervene(self, action) ==
    IF action = INTERVENE /\ ~self.allowed_to_intervene_with_own_position THEN NONE ELSE action
Downgrade(self, action) ==
    DowngradeIntervene(self, DowngradeStop(self, DowngradeSkip(self,
        DowngradeSanction(self, DowngradeVeto(self, action)))))

\* the forced downgrade with the comparison `< 2` in place of `<= 2`
ForceDownVetoBelowTwo(action, active_participants_count) ==
    IF action = VETO /\ active_participants_count < 2 THEN INTERVENE ELSE action

\* moderator.py 157-159: a VETO with two or fewer active participants becomes INTERVENE
ForceDownVeto(action, active_participants_count) ==
    IF action = VETO /\ active_participants_count <= 2 THEN INTERVENE ELSE action

\* moderator.py 153: max(500, global_max_letters // 2)
NewLimit(global_max_letters) == Max(500, global_max_letters \div 2)

NoDecision(called) ==
    [action |-> NONE, target |-> "", reason |-> "", msg |-> {}, called |-> called,
     new_limit |-> {}, is_too_long |-> FALSE]

\* the decision that does not stand back after a System line
DecideInterventionAfterSystem(self, history, next_speaker_name, active_participants_count, global_max_letters, j) ==
    IF Len(history) <= 1 THEN NoDecision(FALSE)
    ELSE
    LET last_intervention == Last(history)
        last_speaker_name == SpeakerName(last_intervention)
    IN
    IF last_speaker_name = self.name
    THEN NoDecision(FALSE)
    ELSE
    LET is_too_long == last_intervention.len > global_max_letters + 100 IN
    IF j.kind \in {"raise", "short"} THEN [NoDecision(TRUE) EXCEPT !.is_too_long = is_too_long]
    ELSE
    LET parsed     == ParseAction(j.token)
        downgraded == Downgrade(self, parsed)
        target_name == IF parsed = SKIP THEN next_speaker_name ELSE last_speaker_name
        limited    == downgraded = LIMIT /\ last_intervention.participant # NoAuthor
        action     == ForceDownVeto(downgraded, active_participants_count)
        disclaimer == downgraded = VETO /\ action = INTERVENE
    IN
    IF action = NONE
    THEN [NoDecision(TRUE) EXCEPT !.is_too_long = is_too_long]
    ELSE [action |-> action, target |-> target_name, reason |-> "reason",
          msg |-> {Intervention(ModAuthor, self.name, "moderator", 10, "Moderator",
                                action, disclaimer,
                                IF limited THEN {NewLimit(global_max_letters)} ELSE {})},
          called |-> TRUE,
          new_limit |-> IF limited THEN {NewLimit(global_max_letters)} ELSE {},
          is_too_long |-> is_too_long]

\* decide_intervention(history, next_speaker, active_participants_count, global_max_letters)
\* with the outcome j of its one external judgment call. `called` tells whether the
\* call was issued; new_limit is what it stores in last_speaker_obj.next_turn_char_limit.
DecideIntervention(self, history, next_speaker_name, active_participants_count, global_max_letters, j) ==
    IF Len(history) <= 1 THEN NoDecision(FALSE)
    ELSE
    LET last_intervention == Last(history)
        last_speaker_name == SpeakerName(last_intervention)
    IN
    IF last_speaker_name = SYSTEM_NAME \/ last_speaker_name = self.name
    THEN NoDecision(FALSE)
    ELSE
    LET is_too_long == last_intervention.len > global_max_letters + 100 IN
    IF j.kind \in {"raise", "short"} THEN [NoDecision(TRUE) EXCEPT !.is_too_long = is_too_long]
    ELSE
    LET parsed     == ParseAction(j.token)
        downgraded == Downgrade(self, parsed)
        target_name == IF parsed = SKIP THEN next_speaker_name ELSE last_speaker_name
        limited    == downgraded = LIMIT /\ last_intervention.participant # NoAuthor
        action     == ForceDownVeto(downgraded, active_participants_count)
        disclaimer == downgraded = VETO /\ action = INTERVENE
    IN
    IF action = NONE
    THEN [NoDecision(TRUE) EXCEPT !.is_too_long = is_too_long]
    ELSE [action |-> action, target |-> target_name, reason |-> "reason",
          msg |-> {Intervention(ModAuthor, self.name, "moderator", 10, "Moderator",
                                action, disclaimer,
                                IF limited THEN {NewLimit(global_max_letters)} ELSE {})},
          called |-> TRUE,
          new_limit |-> IF limited THEN {NewLimit(global_max_letters)} ELSE {},
          is_too_long |-> is_too_long]

-----------------------------------------------------------------------------
(* SpecDecide: decide_intervention applied once to inputs drawn from small sets *)

\* Moderator(**data) with the four capability flags (moderator.py 13-16)
Moderator(name, confidence, intervene, skip, stop, veto) ==
    [name |-> name, confidence_score |-> confidence,
     allowed_to_intervene_with_own_position |-> intervene,
     allowed_to_skip_turn |-> skip,
     allowed_to_stop_debate |-> stop,
     allowed_to_veto_participant |-> veto]

DecideNames == {"Ana", "Bob"}
DecideModName == "Mia"
OpeningBy(author, name) ==
    Intervention(author, name, "opening", 10, IF author = NoAuthor THEN "System" ELSE "Moderator",
                 NONE, FALSE, {})
AnswerBy(i, name, length, pos) == Intervention(i, name, "answer", length, pos, NONE, FALSE, {})
SkipLine(kind) == Intervention(NoAuthor, "", kind, 10, "System", NONE, FALSE, {})

DecideMaxLetters == {600, 1000}
DecideLastEntries(gmax) ==
    {SkipLine("skip_sanction"),
     Intervention(ModAuthor, DecideModName, "moderator", 10, "Moderator", INTERVENE, FALSE, {}),
     AnswerBy(1, "Ana", 100, "A"), AnswerBy(1, "Ana", gmax + 100, "A"), AnswerBy(1, "Ana", gmax + 101, "A"),
     AnswerBy(2, "Bob", 100, "A"), AnswerBy(2, DecideModName, 100, "A")}
DecideHistories(gmax) ==
    {<<OpeningBy(ModAuthor, DecideModName)>>}
    \cup {<<OpeningBy(ModAuthor, DecideModName), e>> : e \in DecideLastEntries(gmax)}
    \cup {<<OpeningBy(ModAuthor, DecideModName), AnswerBy(2, "Bob", 100, "A"), e>> :
             e \in DecideLastEntries(gmax)}

DecideInputs ==
    UNION {[self : {Moderator(DecideModName, 100, i, k, s, v) : i, k, s, v \in BOOLEAN},
            history : DecideHistories(gmax),
            next_speaker : DecideNames,
            active : 0..MaxActive,
            gmax : {gmax},
            j : Judgments] : gmax \in DecideMaxLetters}

IdleMain ==
    /\ participants = <<>> /\ moderator = {} /\ interventions = <<>> /\ full_transcript = <<>>
    /\ moderator_stats = <<>> /\ position_changes_log = <<>> /\ evaluation_data = {}
    /\ accumulated_system_cost = 0 /\ settings = <<>>
    /\ pc = "idle" /\ round_num = 0 /\ turn_num = 0 /\ p_idx = 0 /\ debate_active = FALSE
    /\ pend = <<>> /\ ev = <<>> /\ ret = "idle" /\ trace = <<>> /\ incidents = 0 /\ result_path = {}
IdleDecide == dIn = {} /\ dOut = {}
IdleEval   == eP = {} /\ eEnv = {} /\ eOut = {} /\ eCalls = 0
IdleBatch  == batch = <<>> /\ futs = <<>> /\ successful = <<>> /\ report = {}
IdleCall   == brain = "" /\ attempts = 0 /\ providers = <<>> /\ llm = <<>>
IdleOther  == IdleBatch /\ IdleCall

DecideInit ==
    /\ IdleMain /\ IdleEval /\ IdleOther
    /\ dIn \in {{x} : x \in DecideInputs}
    /\ dOut = {}

DecideCall ==
    /\ dIn # {} /\ dOut = {}
    /\ LET x == The(dIn) IN
       dOut' = {DecideIntervention(x.self, x.history, x.next_speaker, x.active, x.gmax, x.j)}
    /\ UNCHANGED <<dIn, mainVars, evalVars, otherVars>>

DecideNext == DecideCall
SpecDecide == DecideInit /\ [][DecideNext]_vars

\* the call returned
Decided == dIn # {} /\ dOut # {}
\* the external judgment was asked and its action part parses to a
JudgedAs(a) ==
    /\ Decided /\ The(dOut).called
    /\ The(dIn).j.kind = "ok" /\ ParseAction(The(dIn).j.token) = a

-----------------------------------------------------------------------------
(* Participant / Debater (models/participant.py, models/debater.py) *)

\* Debater(**data): the fields of the defaults of debater.py 8-14 and
\* model_post_init (participant.py 53-57): confidence_history = [confidence_score]
Debater(name, mindset, confidence, position, order) ==
    [name |-> name, mindset |-> mindset,
     confidence_score |-> confidence, confidence_history |-> <<confidence>>,
     original_position |-> position, final_position |-> {},
     order_in_debate |-> order,
     is_vetoed |-> FALSE, veto_reason |-> {}, strikes |-> 0,
     skip_next_turn |-> FALSE, next_turn_char_limit |-> {}]

\* participant.py 77-80 (a position is never the empty string here)
CurrentPosition(p) == IF p.final_position # {} THEN The(p.final_position) ELSE p.original_position

\* participant.py 173-180: the multiplier of a negative delta, in tenths
Modifier(p, env) ==
    CASE p.mindset = OPEN_MINDED  -> env.open_minded_mult
      [] p.mindset = CLOSE_MINDED -> env.close_minded_mult
      [] OTHER                    -> 10

\* participant.py 231-232
ScaledDelta(p, env, delta) == IF delta < 0 THEN (delta * Modifier(p, env)) \div 10 ELSE delta

\* participant.py 234: max(0.0, min(1.0, confidence_score + delta))
Clamp(x) == Max(0, Min(100, x))

\* participant.py 239-244: the confidence a flip resets to
PostFlipConf(env) ==
    IF env.post_flip_conf <= env.flip_threshold
    THEN Min(100, env.flip_threshold + 15)
    ELSE env.post_flip_conf

\* every allowed position counts as an alternative, the current one included
AlternativesAll(p, allowed_positions) == allowed_positions

\* participant.py 250-254
Alternatives(p, allowed_positions) ==
    SelectSeq(allowed_positions, LAMBDA pos : pos # CurrentPosition(p))

\* What the external calls of one evaluation give: the judgment call raises, or returns a
\* text whose delta parses to `delta` (0 when nothing parses); the choice call, made only
\* with two or more alternatives, raises ("raise") or ends in the alternative number `pick`
\* (matched by substring, or drawn by random.choice when nothing matches).
EvalOutcome(kind, delta, pick_kind, pick) ==
    [kind |-> kind, delta |-> delta, pick_kind |-> pick_kind, pick |-> pick]

\* Participant.check_change_position (participant.py 167-306): the participant after the
\* call, the PositionChangeCheck it returns, and the number of external calls made
CheckChangePosition(p, env, allowed_positions, o) ==
    IF o.kind = "raise"
    THEN [p |-> p, has_changed |-> FALSE, new_position |-> CurrentPosition(p), calls |-> 1]
    ELSE
    LET new_confidence == Clamp(p.confidence_score + ScaledDelta(p, env, o.delta))
        p1 == [p EXCEPT !.confidence_score = new_confidence,
                        !.confidence_history = Append(@, new_confidence)]
        alternatives == Alternatives(p1, allowed_positions)
        must_flip == new_confidence < env.flip_threshold
        asks == must_flip /\ Len(alternatives) >= 2
    IN
    IF asks /\ o.pick_kind = "raise"
    THEN [p |-> p1, has_changed |-> FALSE, new_position |-> CurrentPosition(p1), calls |-> 2]
    ELSE
    LET has_changed == must_flip /\ Len(alternatives) >= 1
        new_pos == IF ~has_changed THEN CurrentPosition(p1)
                   ELSE IF Len(alternatives) = 1 THEN alternatives[1]
                   ELSE alternatives[((o.pick - 1) % Len(alternatives)) + 1]
        p2 == IF has_changed
              THEN [p1 EXCEPT !.final_position = {new_pos},
                              !.confidence_score = PostFlipConf(env),
                              !.confidence_history = Append(@, PostFlipConf(env))]
              ELSE p1
    IN [p |-> p2, has_changed |-> has_changed, new_position |-> new_pos,
        calls |-> IF asks THEN 2 ELSE 1]

\* os.getenv defaults: CONFIDENCE_FLIP_THRESHOLD 0.3, CONFIDENCE_AFTER_FLIP 0.6,
\* OPEN_MINDED_IMPACT_MULTIPLIER 1.2, CLOSE_MINDED_IMPACT_MULTIPLIER 0.8
ConfidenceEnv(flip_threshold, post_flip_conf) ==
    [flip_threshold |-> flip_threshold, post_flip_conf |-> post_flip_conf,
     open_minded_mult |-> 12, close_minded_mult |-> 8]
DefaultConfidenceEnv == ConfidenceEnv(30, 60)

-----------------------------------------------------------------------------
(* SpecEval: one participant, evaluated at the end of up to MaxEvals rounds *)

\* random.uniform(0.6, 1.0) (base.py 160)
InitialConfidences == {60, 80, 100}
EvalDeltas == {0 - 50, 0 - 15, 0, 5, 50}
EvalEnvs == {ConfidenceEnv(t, c) : t \in {30, 100}, c \in {20, 60, 150}}
EvalPositionLists == {<<"A">>, <<"A", "B">>, <<"A", "B", "C">>}
EvalOutcomes ==
    {EvalOutcome("raise", 0, "none", 1)}
    \cup {EvalOutcome("ok", d, "pick", k) : d \in EvalDeltas, k \in 1..2}
    \cup {EvalOutcome("ok", d, "raise", 1) : d \in EvalDeltas}

EvalInit ==
    /\ IdleMain /\ IdleDecide /\ IdleOther
    /\ \E c \in InitialConfidences, m \in MindsetType :
          eP = {Debater("Ana", m, c, "A", 1)}
    /\ \E env \in EvalEnvs, allowed \in EvalPositionLists :
          eEnv = {[env |-> env, allowed_positions |-> allowed]}
    /\ eOut = {}
    /\ eCalls = 0

EvalCall ==
    /\ eP # {} /\ eCalls < MaxEvals
    /\ \E o \in EvalOutcomes :
         LET r == CheckChangePosition(The(eP), The(eEnv).env, The(eEnv).allowed_positions, o) IN
         /\ eP' = {r.p}
         /\ eOut' = {[before |-> The(eP), outcome |-> o, has_changed |-> r.has_changed,
                      new_position |-> r.new_position, calls |-> r.calls]}
    /\ eCalls' = eCalls + 1
    /\ UNCHANGED <<eEnv, mainVars, decideVars, otherVars>>

EvalNext == EvalCall
SpecEval == EvalInit /\ [][EvalNext]_vars

-----------------------------------------------------------------------------
(* Spec: Debate.__init__ (base.py 60-96) *)

\* the rosters, rounds and turns of a debate: MIN_PARTICIPANTS (2) to MaxParticipants
\* participants, at least one round and one turn
Shapes ==
    {sh \in [n : 2..MaxParticipants, rounds : 1..MaxSlots, turns : 1..MaxSlots] :
        sh.n * sh.rounds * sh.turns <= MaxSlots}

\* Faker.first_name() may give two participants the same name (base.py 142)
ParticipantNames == <<"Ana", "Bob", "Cyd", "Dan", "Eve", "Fay", "Gus", "Hal">>
NameOfNew(i, duplicate) == IF duplicate /\ i = 2 THEN ParticipantNames[1]
                           ELSE ParticipantNames[((i - 1) % Len(ParticipantNames)) + 1]
ModeratorName == "Mia"

\* base.py 229-246: the positions are dealt round over the allowed positions
PositionOfNew(i, allowed_positions) == allowed_positions[((i - 1) % Len(allowed_positions)) + 1]
MindsetOfNew(i) ==
    CASE i % 3 = 1 -> NEUTRAL
      [] i % 3 = 2 -> OPEN_MINDED
      [] OTHER     -> CLOSE_MINDED

\* base.py 81-88
NoStats ==
    [interventions |-> 0, sanctions |-> 0, skips |-> 0, vetos |-> 0, stops |-> 0, limits |-> 0]

\* base.py 89: EvaluationSection(participants=[])
EmptyEvaluation == [participants |-> <<>>, moderator |-> {}, global_outcome |-> {}]

\* base.py 727-732: the locals of _evaluate before the first voter
NoVotes == [participant_scores |-> <<>>, votes |-> <<>>, best_id_votes |-> <<>>,
            worst_id_votes |-> <<>>, trace |-> <<>>, raised |-> FALSE]

\* the allowed positions of the debate and MEMORY_COMPRESSION_TURNS (base.py 332,
\* default 10)
Variants == {[allowed_positions |-> <<"A", "B">>, compression_turns |-> 10],
             [allowed_positions |-> <<"A", "B", "C">>, compression_turns |-> 2]}

\* the debates: with a moderator (all four capabilities, base.py 281-289), names distinct
\* or not, MAX_STRIKES_FOR_VETO (default 3) from 1..MaxStrikesCfg; or without moderator
Setups ==
    {[has_moderator |-> TRUE, duplicate |-> FALSE, max_strikes |-> k, variant |-> v] :
        k \in 1..MaxStrikesCfg, v \in Variants}
    \cup {[has_moderator |-> TRUE, duplicate |-> TRUE, max_strikes |-> 1, variant |-> v] :
        v \in {w \in Variants : Len(w.allowed_positions) = 2}}
    \cup {[has_moderator |-> FALSE, duplicate |-> FALSE, max_strikes |-> 3, variant |-> v] :
        v \in Variants}

Init ==
    /\ IdleDecide /\ IdleEval /\ IdleOther
    /\ \E sh \in Shapes, su \in Setups :
          /\ participants =
                [i \in 1..sh.n |->
                    Debater(NameOfNew(i, su.duplicate), MindsetOfNew(i), 60,
                            PositionOfNew(i, su.variant.allowed_positions), i)]
          /\ moderator = IF su.has_moderator
                         THEN {Moderator(ModeratorName, 100, TRUE, TRUE, TRUE, TRUE)}
                         ELSE {}
          /\ settings = [total_rounds |-> sh.rounds, total_turns |-> sh.turns,
                         max_letters |-> 1000,
                         allowed_positions |-> su.variant.allowed_positions,
                         max_strikes |-> su.max_strikes,
                         compression_turns |-> su.variant.compression_turns,
                         env |-> DefaultConfidenceEnv]
    /\ interventions = <<>>
    /\ full_transcript = <<>>
    /\ position_changes_log = <<>>
    /\ moderator_stats = NoStats
    /\ evaluation_data = EmptyEvaluation
    /\ accumulated_system_cost = 0
    /\ pc = "start" /\ round_num = 0 /\ turn_num = 0 /\ p_idx = 0
    /\ debate_active = TRUE
    /\ pend = NoDecision(FALSE)
    /\ ev = NoVotes
    /\ ret = "not_called" /\ trace = <<>> /\ incidents = MaxIncidents /\ result_path = {}

-----------------------------------------------------------------------------
(* Spec: Debate.run_generator (base.py 399-645) and Debate.step (647-655) *)

N == Len(participants)
HasModerator == moderator # {}

\* an event yielded to the caller of step, or an external call, in order of occurrence
Yield(type, who, arg) == [yield |-> TRUE, type |-> type, who |-> who, arg |-> arg]
Call(type, who, arg)  == [yield |-> FALSE, type |-> type, who |-> who, arg |-> arg]

\* the intervention is appended to the live transcript only
RecordInterventionLiveOnly(i) ==
    /\ interventions' = Append(interventions, i)
    /\ full_transcript' = full_transcript

\* base.py 327-329
RecordIntervention(i) ==
    /\ interventions' = Append(interventions, i)
    /\ full_transcript' = Append(full_transcript, i)

\* len([x for x in self.participants if not x.is_vetoed]) (base.py 483-485)
ActiveCount(ps) == Cardinality({i \in DOMAIN ps : ~ps[i].is_vetoed})

\* next((x for x in self.participants if x.name == target), None) (base.py 524-526)
TargetP(ps, target) ==
    LET named == {i \in DOMAIN ps : ps[i].name = target} IN
    IF named = {} THEN {} ELSE {CHOOSE i \in named : \A k \in named : i <= k}

\* the step of the caller that resumes the generator returns `event`
Returns(event) == ret' = event

\* base.py 403-414: the first step creates the generator and runs it to its first yield
StartRun ==
    /\ pc = "start"
    /\ pc' = "opening"
    /\ trace' = Append(trace, Yield("initial_state", NoAuthor, 0))
    /\ Returns("initial_state")
    /\ UNCHANGED <<debateVars, round_num, turn_num, p_idx, debate_active, pend, ev,
                   incidents, result_path, decideVars, evalVars, otherVars>>

\* an opening remark that is the system line whether or not there is a moderator
OpeningBySystemOnly == OpeningBy(NoAuthor, "")

\* base.py 416-440: the opening remark, by the moderator or by no participant
OpeningIntervention ==
    IF HasModerator THEN OpeningBy(ModAuthor, The(moderator).name) ELSE OpeningBy(NoAuthor, "")

OpeningRemark ==
    /\ pc = "opening"
    /\ RecordIntervention(OpeningIntervention)
    /\ pc' = "round_head"
    /\ trace' = Append(trace, Yield("intervention", OpeningIntervention.participant, 0))
    /\ Returns("intervention")
    /\ UNCHANGED <<participants, moderator, moderator_stats, position_changes_log,
                   evaluation_data, accumulated_system_cost, settings,
                   round_num, turn_num, p_idx, debate_active, pend, ev,
                   incidents, result_path, decideVars, evalVars, otherVars>>

\* one of the MaxIncidents non-default external outcomes of the run is used up
Incident == incidents > 0 /\ incidents' = incidents - 1
NoIncident == UNCHANGED incidents

\* base.py 445-449: the head of the loop over the rounds
RoundStart ==
    /\ pc = "round_head"
    /\ round_num < settings.total_rounds /\ debate_active
    /\ round_num' = round_num + 1
    /\ turn_num' = 0
    /\ pc' = "turn_head"
    /\ trace' = Append(trace, Yield("round_start", NoAuthor, round_num + 1))
    /\ Returns("round_start")
    /\ UNCHANGED <<debateVars, p_idx, debate_active, pend, ev, incidents, result_path,
                   decideVars, evalVars, otherVars>>

\* base.py 451-458: the head of the loop over the turns of a round
TurnStart ==
    /\ pc = "turn_head"
    /\ turn_num < settings.total_turns /\ debate_active
    /\ turn_num' = turn_num + 1
    /\ pc' = "summarize"
    /\ trace' = Append(trace, Yield("turn_start", NoAuthor, turn_num + 1))
    /\ Returns("turn_start")
    /\ UNCHANGED <<debateVars, round_num, p_idx, debate_active, pend, ev, incidents,
                   result_path, decideVars, evalVars, otherVars>>

\* interventions[:k], the oldest entries instead of the most recent ones
FirstN(s, k) == IF Len(s) <= k THEN s ELSE SubSeq(s, 1, k)

\* interventions[-k:]
LastN(s, k) == IF Len(s) <= k THEN s ELSE SubSeq(s, Len(s) - k + 1, Len(s))

SummaryIntervention == Intervention(NoAuthor, "", "summary", 10, "System", NONE, FALSE, {})

\* Debate._summarize_history (base.py 331-380): the live transcript after the call, when
\* one of the provider candidates succeeds (`succeeds`) or none does / none is configured
SummarizeHistory(history, limit, succeeds) ==
    IF Len(history) <= limit THEN history
    ELSE IF ~succeeds THEN history
    ELSE <<SummaryIntervention>> \o LastN(history, 5)

\* the compression whose failure leaves the generator as an exception
SummarizeFailsRaising ==
    /\ pc = "summarize"
    /\ \E succeeds \in BOOLEAN :
         /\ IF succeeds /\ Len(interventions) > settings.compression_turns
            THEN /\ Incident
                 /\ accumulated_system_cost' = accumulated_system_cost + 1
                 /\ trace' = Append(trace, Call("summarize", NoAuthor, 1))
                 /\ pc' = "participant" /\ ret' = ret
            ELSE /\ ~succeeds
                 /\ NoIncident
                 /\ UNCHANGED accumulated_system_cost
                 /\ IF Len(interventions) > settings.compression_turns
                    THEN /\ trace' = Append(trace, Call("summarize", NoAuthor, 0))
                         /\ pc' = "done" /\ ret' = "raised"
                    ELSE trace' = trace /\ pc' = "participant" /\ ret' = ret
         /\ interventions' = SummarizeHistory(interventions, settings.compression_turns, succeeds)
    /\ p_idx' = 0
    /\ UNCHANGED <<participants, moderator, full_transcript, moderator_stats,
                   position_changes_log, evaluation_data, settings,
                   round_num, turn_num, debate_active, pend, ev, result_path,
                   decideVars, evalVars, otherVars>>

\* base.py 460: the compression before the participants of a turn
Summarize ==
    /\ pc = "summarize"
    /\ \E succeeds \in BOOLEAN :
         /\ IF succeeds /\ Len(interventions) > settings.compression_turns
            THEN /\ Incident
                 /\ accumulated_system_cost' = accumulated_system_cost + 1
                 /\ trace' = Append(trace, Call("summarize", NoAuthor, 1))
            ELSE /\ ~succeeds
                 /\ NoIncident
                 /\ UNCHANGED accumulated_system_cost
                 /\ trace' = IF Len(interventions) > settings.compression_turns
                             THEN Append(trace, Call("summarize", NoAuthor, 0))
                             ELSE trace
         /\ interventions' = SummarizeHistory(interventions, settings.compression_turns, succeeds)
    /\ pc' = "participant"
    /\ p_idx' = 0
    /\ UNCHANGED <<participants, moderator, full_transcript, moderator_stats,
                   position_changes_log, evaluation_data, settings,
                   round_num, turn_num, debate_active, pend, ev, ret, result_path,
                   decideVars, evalVars, otherVars>>

\* the participant whose turn it is: p of `for p in self.participants`
Cur == p_idx + 1
AtParticipant == pc = "participant"
\* p is reached: not vetoed, not skip-flagged, and more than one participant is active
Reached == AtParticipant /\ ~participants[Cur].is_vetoed /\ ~participants[Cur].skip_next_turn
           /\ ActiveCount(participants) > 1

\* `continue`: on to the next participant of the roster, or out of the loop (base.py 462)
Continue == IF Cur < N THEN pc' = "participant" /\ p_idx' = Cur
            ELSE pc' = "turn_head" /\ p_idx' = 0

\* a veto handled like the one-turn skip flag: cleared once the turn has been skipped
SkipVetoedOnce ==
    /\ AtParticipant /\ participants[Cur].is_vetoed
    /\ participants' = [participants EXCEPT ![Cur].is_vetoed = FALSE]
    /\ Continue
    /\ UNCHANGED <<moderator, interventions, full_transcript, moderator_stats,
                   position_changes_log, evaluation_data, accumulated_system_cost, settings,
                   round_num, turn_num, debate_active, pend, ev, obsVars,
                   decideVars, evalVars, otherVars>>

\* base.py 463-464
SkipVetoed ==
    /\ AtParticipant /\ participants[Cur].is_vetoed
    /\ Continue
    /\ UNCHANGED <<debateVars, round_num, turn_num, debate_active, pend, ev, obsVars,
                   decideVars, evalVars, otherVars>>

\* the skip of a flagged participant that leaves skip_next_turn set
SkipSanctionedKeepsFlag ==
    /\ AtParticipant /\ ~participants[Cur].is_vetoed /\ participants[Cur].skip_next_turn
    /\ RecordIntervention(SkipLine("skip_sanction"))
    /\ trace' = Append(trace, Yield("intervention", NoAuthor, Cur))
    /\ Returns("intervention")
    /\ Continue
    /\ UNCHANGED <<participants, moderator, moderator_stats, position_changes_log,
                   evaluation_data, accumulated_system_cost, settings, round_num, turn_num,
                   debate_active, pend, ev, incidents, result_path, decideVars, evalVars,
                   otherVars>>

\* base.py 465-481
SkipSanctioned ==
    /\ AtParticipant /\ ~participants[Cur].is_vetoed /\ participants[Cur].skip_next_turn
    /\ RecordIntervention(SkipLine("skip_sanction"))
    /\ participants' = [participants EXCEPT ![Cur].skip_next_turn = FALSE]
    /\ trace' = Append(trace, Yield("intervention", NoAuthor, Cur))
    /\ Returns("intervention")
    /\ Continue
    /\ UNCHANGED <<moderator, moderator_stats, position_changes_log, evaluation_data,
                   accumulated_system_cost, settings, round_num, turn_num, debate_active,
                   pend, ev, incidents, result_path, decideVars, evalVars, otherVars>>

\* the guard that only leaves the loop over the participants: the next turn starts
ActiveGuardContinues ==
    /\ AtParticipant /\ ~participants[Cur].is_vetoed /\ ~participants[Cur].skip_next_turn
    /\ ActiveCount(participants) <= 1
    /\ pc' = "turn_head"
    /\ UNCHANGED <<debateVars, round_num, turn_num, p_idx, debate_active, pend, ev, obsVars,
                   decideVars, evalVars, otherVars>>

\* base.py 483-488: the active-count guard
ActiveGuard ==
    /\ AtParticipant /\ ~participants[Cur].is_vetoed /\ ~participants[Cur].skip_next_turn
    /\ ActiveCount(participants) <= 1
    /\ debate_active' = FALSE
    /\ pc' = "turn_head"
    /\ UNCHANGED <<debateVars, round_num, turn_num, p_idx, pend, ev, obsVars,
                   decideVars, evalVars, otherVars>>

\* the judgments the moderator's external call gives in a run of the debate
RunJudgments == {[kind |-> "raise", token |-> NONE]}
                \cup {[kind |-> "ok", token |-> t] : t \in ExactTokens}
DefaultJudgment == [kind |-> "ok", token |-> NONE]

\* base.py 502-505
CountMessage(stats, action) ==
    CASE action = INTERVENE -> [stats EXCEPT !.interventions = @ + 1]
      [] action = STOP      -> [stats EXCEPT !.stops = @ + 1]
      [] OTHER              -> stats

\* moderator.py 152-154: the limit is stored in the object of the last speaker
StoreLimit(ps, history, d) ==
    IF d.new_limit = {} THEN ps
    ELSE [ps EXCEPT ![Last(history).participant].next_turn_char_limit = d.new_limit]

\* base.py 490-522: the moderator decides; a non-null message is recorded and yielded
Moderate ==
    /\ Reached /\ HasModerator
    /\ \E j \in (IF incidents = 0 THEN {DefaultJudgment} ELSE RunJudgments) :
         LET d == DecideIntervention(The(moderator), interventions, participants[Cur].name,
                                     ActiveCount(participants), settings.max_letters, j)
         IN
         /\ IF d.called
            THEN IF j = DefaultJudgment THEN NoIncident ELSE Incident
            ELSE j = DefaultJudgment /\ NoIncident
         /\ pend' = d
         /\ participants' = StoreLimit(participants, interventions, d)
         /\ IF d.msg # {}
            THEN /\ RecordIntervention(The(d.msg))
                 /\ moderator_stats' = CountMessage(moderator_stats, d.action)
                 /\ trace' = trace \o
                       <<Call("decide", Cur, 0), Call("judgment", Cur, 0),
                         Yield("intervention", ModAuthor, Cur)>>
                 /\ Returns("intervention")
                 /\ pc' = "apply"
            ELSE /\ UNCHANGED <<interventions, full_transcript, moderator_stats, ret>>
                 /\ trace' = trace \o
                       (IF d.called THEN <<Call("decide", Cur, 0), Call("judgment", Cur, 0)>>
                        ELSE <<Call("decide", Cur, 0)>>)
                 /\ pc' = "answer"
    /\ UNCHANGED <<moderator, position_changes_log, evaluation_data, accumulated_system_cost,
                   settings, round_num, turn_num, p_idx, debate_active, ev, result_path,
                   decideVars, evalVars, otherVars>>

\* target_p of base.py 524-526 for the decision being applied
PendTarget == TargetP(participants, pend.target)

\* a STOP that leaves debate_active alone and goes on to the answer
ApplyStopContinues ==
    /\ pc = "apply" /\ pend.action = STOP
    /\ pc' = "answer"
    /\ UNCHANGED <<debateVars, round_num, turn_num, p_idx, debate_active, pend, ev, obsVars,
                   decideVars, evalVars, otherVars>>

\* base.py 527-529
ApplyStop ==
    /\ pc = "apply" /\ pend.action = STOP
    /\ debate_active' = FALSE
    /\ pc' = "turn_head"
    /\ UNCHANGED <<debateVars, round_num, turn_num, p_idx, pend, ev, obsVars,
                   decideVars, evalVars, otherVars>>

\* the veto that is not counted in moderator_stats
ApplyVetoUncounted ==
    /\ pc = "apply" /\ pend.action = VETO /\ PendTarget # {}
    /\ participants' = [participants EXCEPT ![The(PendTarget)].is_vetoed = TRUE,
                                            ![The(PendTarget)].veto_reason = {pend.reason}]
    /\ trace' = Append(trace, Yield("veto", The(PendTarget), Cur))
    /\ Returns("veto")
    /\ pc' = "after_veto"
    /\ UNCHANGED <<moderator, interventions, full_transcript, position_changes_log,
                   evaluation_data, accumulated_system_cost, settings, moderator_stats,
                   round_num, turn_num, p_idx, debate_active, pend, ev, incidents,
                   result_path, decideVars, evalVars, otherVars>>

\* base.py 531-542
ApplyVeto ==
    /\ pc = "apply" /\ pend.action = VETO /\ PendTarget # {}
    /\ participants' = [participants EXCEPT ![The(PendTarget)].is_vetoed = TRUE,
                                            ![The(PendTarget)].veto_reason = {pend.reason}]
    /\ moderator_stats' = [moderator_stats EXCEPT !.vetos = @ + 1]
    /\ trace' = Append(trace, Yield("veto", The(PendTarget), Cur))
    /\ Returns("veto")
    /\ pc' = "after_veto"
    /\ UNCHANGED <<moderator, interventions, full_transcript, position_changes_log,
                   evaluation_data, accumulated_system_cost, settings,
                   round_num, turn_num, p_idx, debate_active, pend, ev, incidents,
                   result_path, decideVars, evalVars, otherVars>>

\* the veto without `if target_p == p: continue`
AfterVetoAnswers ==
    /\ pc = "after_veto"
    /\ pc' = "answer"
    /\ UNCHANGED <<debateVars, round_num, turn_num, p_idx, debate_active, pend, ev, obsVars,
                   decideVars, evalVars, otherVars>>

\* base.py 543-544 and 570-571: `if target_p == p: continue`, else on to the answer
AfterVeto ==
    /\ pc = "after_veto"
    /\ IF PendTarget = {Cur} THEN Continue ELSE pc' = "answer" /\ UNCHANGED p_idx
    /\ UNCHANGED <<debateVars, round_num, turn_num, debate_active, pend, ev, obsVars,
                   decideVars, evalVars, otherVars>>

\* base.py 546-557
ApplySanction ==
    /\ pc = "apply" /\ pend.action = SANCTION /\ PendTarget # {}
    /\ participants' = [participants EXCEPT ![The(PendTarget)].strikes = @ + 1,
                                            ![The(PendTarget)].skip_next_turn = TRUE]
    /\ moderator_stats' = [moderator_stats EXCEPT !.sanctions = @ + 1]
    /\ trace' = Append(trace, Yield("sanction", The(PendTarget), Cur))
    /\ Returns("sanction")
    /\ pc' = "after_sanction"
    /\ UNCHANGED <<moderator, interventions, full_transcript, position_changes_log,
                   evaluation_data, accumulated_system_cost, settings,
                   round_num, turn_num, p_idx, debate_active, pend, ev, incidents,
                   result_path, decideVars, evalVars, otherVars>>

\* the veto for accumulated strikes without the increment of the vetos counter
StrikeVetoUncounted ==
    /\ pc = "after_sanction"
    /\ participants[The(PendTarget)].strikes >= settings.max_strikes
    /\ participants' = [participants EXCEPT ![The(PendTarget)].is_vetoed = TRUE,
                                            ![The(PendTarget)].veto_reason = {"Max Strikes"}]
    /\ trace' = Append(trace, Yield("veto", The(PendTarget), Cur))
    /\ Returns("veto")
    /\ pc' = "after_veto"
    /\ UNCHANGED <<moderator, interventions, full_transcript, position_changes_log,
                   evaluation_data, accumulated_system_cost, settings, moderator_stats,
                   round_num, turn_num, p_idx, debate_active, pend, ev, incidents,
                   result_path, decideVars, evalVars, otherVars>>

\* base.py 558-569: the strikes reach MAX_STRIKES_FOR_VETO
StrikeVeto ==
    /\ pc = "after_sanction"
    /\ participants[The(PendTarget)].strikes >= settings.max_strikes
    /\ participants' = [participants EXCEPT ![The(PendTarget)].is_vetoed = TRUE,
                                            ![The(PendTarget)].veto_reason = {"Max Strikes"}]
    /\ moderator_stats' = [moderator_stats EXCEPT !.vetos = @ + 1]
    /\ trace' = Append(trace, Yield("veto", The(PendTarget), Cur))
    /\ Returns("veto")
    /\ pc' = "after_veto"
    /\ UNCHANGED <<moderator, interventions, full_transcript, position_changes_log,
                   evaluation_data, accumulated_system_cost, settings,
                   round_num, turn_num, p_idx, debate_active, pend, ev, incidents,
                   result_path, decideVars, evalVars, otherVars>>

\* base.py 558: fewer strikes than the maximum, on to the answer
NoStrikeVeto ==
    /\ pc = "after_sanction"
    /\ participants[The(PendTarget)].strikes < settings.max_strikes
    /\ pc' = "answer"
    /\ UNCHANGED <<debateVars, round_num, turn_num, p_idx, debate_active, pend, ev, obsVars,
                   decideVars, evalVars, otherVars>>

\* base.py 573-592
ApplySkip ==
    /\ pc = "apply" /\ pend.action = SKIP /\ PendTarget # {}
    /\ moderator_stats' = [moderator_stats EXCEPT !.skips = @ + 1]
    /\ IF PendTarget = {Cur}
       THEN /\ RecordIntervention(SkipLine("skip_moderator"))
            /\ trace' = Append(trace, Yield("intervention", NoAuthor, Cur))
            /\ Returns("intervention")
            /\ Continue
            /\ UNCHANGED participants
       ELSE /\ participants' = [participants EXCEPT ![The(PendTarget)].skip_next_turn = TRUE]
            /\ pc' = "answer"
            /\ UNCHANGED <<interventions, full_transcript, trace, ret, p_idx>>
    /\ UNCHANGED <<moderator, position_changes_log, evaluation_data, accumulated_system_cost,
                   settings, round_num, turn_num, debate_active, pend, ev, incidents,
                   result_path, decideVars, evalVars, otherVars>>

\* a LIMIT that records a System line of its own, as a SKIP of the current speaker does
ApplyLimitAnnounced ==
    /\ pc = "apply" /\ pend.action = LIMIT /\ PendTarget # {}
    /\ moderator_stats' = [moderator_stats EXCEPT !.limits = @ + 1]
    /\ RecordIntervention(SkipLine("limit"))
    /\ pc' = "answer"
    /\ UNCHANGED <<participants, moderator, position_changes_log, evaluation_data,
                   accumulated_system_cost, settings, round_num, turn_num, p_idx,
                   debate_active, pend, ev, obsVars, decideVars, evalVars, otherVars>>

\* base.py 594-598
ApplyLimit ==
    /\ pc = "apply" /\ pend.action = LIMIT /\ PendTarget # {}
    /\ moderator_stats' = [moderator_stats EXCEPT !.limits = @ + 1]
    /\ pc' = "answer"
    /\ UNCHANGED <<participants, moderator, interventions, full_transcript,
                   position_changes_log, evaluation_data, accumulated_system_cost, settings,
                   round_num, turn_num, p_idx, debate_active, pend, ev, obsVars,
                   decideVars, evalVars, otherVars>>

\* base.py 524-598: an INTERVENE, or an action whose target is no participant
ApplyNothing ==
    /\ pc = "apply"
    /\ pend.action = INTERVENE \/ (pend.action # STOP /\ PendTarget = {})
    /\ pc' = "answer"
    /\ UNCHANGED <<debateVars, round_num, turn_num, p_idx, debate_active, pend, ev, obsVars,
                   decideVars, evalVars, otherVars>>

\* participant.py 374-378
EffectiveLimit(p, max_letters) ==
    IF p.next_turn_char_limit # {} THEN The(p.next_turn_char_limit) ELSE max_letters

\* base.py 490, 600: p answers after the moderator's action, or at once without moderator
Answering == pc = "answer" \/ (Reached /\ ~HasModerator)

\* the lengths of a generated answer: within max_letters + 100, or beyond
AnswerLengths(max_letters) == {100, max_letters + 101}

\* base.py 600-620: p.answer succeeds, the answer is recorded and the one-shot limit cleared
AnswerOk ==
    /\ Answering
    /\ \E length \in AnswerLengths(settings.max_letters) :
         /\ IF length > settings.max_letters + 100 THEN Incident ELSE NoIncident
         /\ RecordIntervention(AnswerBy(Cur, participants[Cur].name, length,
                                        CurrentPosition(participants[Cur])))
    /\ participants' = [participants EXCEPT ![Cur].next_turn_char_limit = {}]
    /\ trace' = trace \o
          <<Call("answer", Cur, EffectiveLimit(participants[Cur], settings.max_letters)),
            Yield("intervention", Cur, Cur)>>
    /\ Returns("intervention")
    /\ Continue
    /\ UNCHANGED <<moderator, moderator_stats, position_changes_log, evaluation_data,
                   accumulated_system_cost, settings, round_num, turn_num, debate_active,
                   pend, ev, result_path, decideVars, evalVars, otherVars>>

\* the exception of p.answer is not caught: it leaves the generator
AnswerFailsRaising ==
    /\ Answering
    /\ Incident
    /\ trace' = Append(trace,
          Call("answer", Cur, EffectiveLimit(participants[Cur], settings.max_letters)))
    /\ pc' = "done" /\ ret' = "raised"
    /\ UNCHANGED <<debateVars, round_num, turn_num, p_idx, debate_active, pend, ev,
                   result_path, decideVars, evalVars, otherVars>>

\* base.py 622-626: p.answer raises, the turn of p is skipped
AnswerFails ==
    /\ Answering
    /\ Incident
    /\ trace' = Append(trace,
          Call("answer", Cur, EffectiveLimit(participants[Cur], settings.max_letters)))
    /\ Continue
    /\ UNCHANGED <<debateVars, round_num, turn_num, debate_active, pend, ev, ret,
                   result_path, decideVars, evalVars, otherVars>>

\* the outcomes of the external calls of a position evaluation in a run of the debate
RunEvalOutcomes ==
    {EvalOutcome("ok", 0, "pick", 1), EvalOutcome("ok", 0 - 50, "raise", 1)}
    \cup {EvalOutcome("ok", 0 - 50, "pick", k) : k \in 1..2}
DefaultEvalOutcome == EvalOutcome("ok", 0, "pick", 1)

\* the entry with the prior and the new position exchanged
PositionChangeEntrySwapped(name, from_position, to_position, round_when_changed) ==
    [name |-> name, from |-> to_position, to |-> from_position,
     round_when_changed |-> round_when_changed]

\* base.py 713-720
PositionChangeEntry(name, from_position, to_position, round_when_changed) ==
    [name |-> name, from |-> from_position, to |-> to_position,
     round_when_changed |-> round_when_changed]

\* Debate._check_positions (base.py 705-723) from participant i on, with the outcome os[k]
\* of the external calls of participant k: st holds participants, position_changes_log
\* and the trace of calls
RECURSIVE CheckPositionsFrom(_, _, _, _, _)
CheckPositionsFrom(st, i, os, cfg, round) ==
    IF i > Len(st.participants) THEN st
    ELSE IF st.participants[i].is_vetoed THEN CheckPositionsFrom(st, i + 1, os, cfg, round)
    ELSE
    LET p == st.participants[i]
        old_pos == CurrentPosition(p)
        r == CheckChangePosition(p, cfg.env, cfg.allowed_positions, os[i])
    IN CheckPositionsFrom(
          [participants |-> [st.participants EXCEPT ![i] = r.p],
           log |-> IF r.has_changed
                   THEN Append(st.log, PositionChangeEntry(p.name, old_pos, r.new_position, round))
                   ELSE st.log,
           trace |-> Append(st.trace, Call("check_position", i, round))],
          i + 1, os, cfg, round)

\* the outcomes that differ from the default one, among the participants that are asked
Spent(asked, os, default) == Cardinality({i \in asked : os[i] # default})
Active(ps) == {i \in DOMAIN ps : ~ps[i].is_vetoed}

\* an outcome that says how the choice call ends is drawn only when the call is made
ChoiceIsMade(p, cfg, o) ==
    (o.pick_kind = "raise" \/ o.pick # 1)
        => CheckChangePosition(p, cfg.env, cfg.allowed_positions, o).calls = 2

\* the end of a round that evaluates the positions only when the round ran all its turns
CheckPositionsOnlyFullRounds ==
    /\ pc = "turn_head"
    /\ ~(turn_num < settings.total_turns /\ debate_active)
    /\ LET st == IF debate_active
                 THEN CheckPositionsFrom([participants |-> participants,
                                          log |-> position_changes_log, trace |-> trace],
                                         1, [i \in 1..N |-> DefaultEvalOutcome], settings,
                                         round_num)
                 ELSE [participants |-> participants, log |-> position_changes_log,
                       trace |-> trace]
       IN /\ participants' = st.participants
          /\ position_changes_log' = st.log
          /\ trace' = st.trace
    /\ pc' = "round_head"
    /\ UNCHANGED <<moderator, interventions, full_transcript, moderator_stats,
                   evaluation_data, accumulated_system_cost, settings, incidents,
                   round_num, turn_num, p_idx, debate_active, pend, ev, ret, result_path,
                   decideVars, evalVars, otherVars>>

\* base.py 451-453, 628: the turns of the round are over, or the debate is no longer
\* active: _check_positions(round_num), then back to the head of the rounds
CheckPositions ==
    /\ pc = "turn_head"
    /\ ~(turn_num < settings.total_turns /\ debate_active)
    /\ \E os \in (IF incidents = 0 THEN {[i \in 1..N |-> DefaultEvalOutcome]}
                  ELSE [1..N -> RunEvalOutcomes]) :
         LET st == CheckPositionsFrom([participants |-> participants,
                                       log |-> position_changes_log, trace |-> trace],
                                      1, os, settings, round_num)
         IN
         /\ \A i \in 1..N : participants[i].is_vetoed => os[i] = DefaultEvalOutcome
         /\ \A i \in Active(participants) : ChoiceIsMade(participants[i], settings, os[i])
         /\ Spent(Active(participants), os, DefaultEvalOutcome) <= incidents
         /\ incidents' = incidents - Spent(Active(participants), os, DefaultEvalOutcome)
         /\ participants' = st.participants
         /\ position_changes_log' = st.log
         /\ trace' = st.trace
    /\ pc' = "round_head"
    /\ UNCHANGED <<moderator, interventions, full_transcript, moderator_stats,
                   evaluation_data, accumulated_system_cost, settings,
                   round_num, turn_num, p_idx, debate_active, pend, ev, ret, result_path,
                   decideVars, evalVars, otherVars>>

-----------------------------------------------------------------------------
(* Debate._evaluate (base.py 725-846) and save_results (848-940) *)

\* Counter(xs).most_common(1)[0][0]: the most frequent element, the first inserted
\* among the most frequent
Count(xs, x) == Cardinality({k \in 1..Len(xs) : xs[k] = x})
FirstIndex(xs, x) == CHOOSE k \in 1..Len(xs) : xs[k] = x /\ \A m \in 1..(k - 1) : xs[m] # x
MostCommonLatest(xs) ==
    CHOOSE x \in {xs[k] : k \in 1..Len(xs)} :
        \A y \in {xs[k] : k \in 1..Len(xs)} :
            \/ Count(xs, x) > Count(xs, y)
            \/ Count(xs, x) = Count(xs, y) /\ FirstIndex(xs, x) >= FirstIndex(xs, y)
MostCommon(xs) ==
    CHOOSE x \in {xs[k] : k \in 1..Len(xs)} :
        \A y \in {xs[k] : k \in 1..Len(xs)} :
            \/ Count(xs, x) > Count(xs, y)
            \/ Count(xs, x) = Count(xs, y) /\ FirstIndex(xs, x) <= FirstIndex(xs, y)

\* participant.py 311: the names a voter may pick from
Candidates(ps, i) == SelectSeq([k \in 1..Len(ps) |-> ps[k].name], LAMBDA nm : nm # ps[i].name)

\* what Participant.evaluate_debate_performance returns (participant.py 308-369):
\* {} ("empty") when the call or the parsing fails, else the parsed dictionary
RawVote(kind, winner, best_turn, worst_turn) ==
    [kind |-> kind, winner |-> winner, best_turn |-> best_turn, worst_turn |-> worst_turn]
EmptyVote == RawVote("empty", {}, {}, {})

\* the judgments of a voter in a run of the debate: a well-formed one for the first
\* candidate, none that parses, a dictionary whose winner or scores have a type
\* ParticipantScore rejects (results.py 34-39), and one that names the voter itself
\* with a best turn past the end of the history and a worst turn below zero
VoteKinds == {"default", "empty", "illtyped", "self"}
VoteOf(kind, ps, i, history) ==
    CASE kind = "default"  -> RawVote("dict", {Candidates(ps, i)[1]}, {0}, {Len(history) - 1})
      [] kind = "empty"    -> EmptyVote
      [] kind = "illtyped" -> RawVote("illtyped", {}, {}, {})
      [] kind = "self"     -> RawVote("dict", {ps[i].name}, {Len(history)}, {0 - 1})

\* base.py 744-754: the reference to eval_history[idx]
InterventionReference(history, idx) ==
    [id |-> idx, participant |-> SpeakerName(history[idx + 1]), text |-> history[idx + 1]]

\* an index out of range is brought to the nearest valid one instead of being discarded
TurnReferenceClamped(history, turn) ==
    IF turn # {}
    THEN {InterventionReference(history, Max(0, Min(Len(history) - 1, The(turn))))} ELSE {}

\* base.py 741-771: the reference of a best_turn / worst_turn, if it is a valid index
TurnReference(history, turn) ==
    IF turn # {} /\ 0 <= The(turn) /\ The(turn) < Len(history)
    THEN {InterventionReference(history, The(turn))} ELSE {}

\* base.py 773-783 and 755, 771: the locals of _evaluate after the vote `raw` of voter i
CountVote(e, ps, i, history, raw) ==
    LET best_ref  == TurnReference(history, raw.best_turn)
        worst_ref == TurnReference(history, raw.worst_turn)
        p_score   == [voter |-> ps[i].name, winner |-> raw.winner,
                      best_intervention |-> best_ref, worst_intervention |-> worst_ref]
    IN [e EXCEPT
        !.participant_scores = Append(@, p_score),
        !.votes = IF raw.winner # {} THEN Append(@, The(raw.winner)) ELSE @,
        !.best_id_votes = IF best_ref # {} THEN Append(@, The(best_ref).id) ELSE @,
        !.worst_id_votes = IF worst_ref # {} THEN Append(@, The(worst_ref).id) ELSE @]

\* base.py 736-788, the loop over the voters from participant i on, with the judgment
\* of kind kinds[k] for voter k: e holds the locals of _evaluate, the trace of calls, and
\* whether ParticipantScore raised
RECURSIVE PollFrom(_, _, _, _, _)
PollFrom(e, i, kinds, ps, history) ==
    IF i > Len(ps) \/ e.raised THEN e
    ELSE IF ps[i].is_vetoed THEN PollFrom(e, i + 1, kinds, ps, history)
    ELSE IF Len(Candidates(ps, i)) = 0
         THEN PollFrom(CountVote(e, ps, i, history, EmptyVote), i + 1, kinds, ps, history)
    ELSE
    LET raw == VoteOf(kinds[i], ps, i, history)
        called == [e EXCEPT !.trace = Append(@, Call("vote", i, 0))]
    IN IF raw.kind = "illtyped" THEN [called EXCEPT !.raised = TRUE]
       ELSE PollFrom(CountVote(called, ps, i, history, raw), i + 1, kinds, ps, history)

\* base.py 790-833
GlobalOutcome(e, ps, history) ==
    IF Len(e.votes) = 0 THEN {}
    ELSE LET winner == MostCommon(e.votes)
             winner_p == TargetP(ps, winner)
         IN {[winner_name |-> winner,
              winner_position |-> IF winner_p # {} THEN CurrentPosition(ps[The(winner_p)])
                                  ELSE "Unknown",
              vote_distribution |-> [x \in {e.votes[k] : k \in 1..Len(e.votes)} |->
                                        Count(e.votes, x)],
              best_intervention |->
                  IF Len(e.best_id_votes) = 0 THEN {}
                  ELSE {InterventionReference(history, MostCommon(e.best_id_votes))},
              worst_intervention |->
                  IF Len(e.worst_id_votes) = 0 THEN {}
                  ELSE {InterventionReference(history, MostCommon(e.worst_id_votes))}]}

\* what Moderator.evaluate_debate_as_judge gives (moderator.py 191-242): the parsed
\* dictionary, {} when the call or the parsing fails, or parsed JSON that is no
\* dictionary, which EvaluationSection rejects (results.py 95-98)
JudgeVerdicts == {"dict", "empty", "illtyped"}

\* base.py 842-846
EvaluationSection(e, verdict, ps, history) ==
    [participants |-> e.participant_scores, moderator |-> verdict,
     global_outcome |-> GlobalOutcome(e, ps, history)]

\* base.py 855-876, 925-935: the persisted transcript is full_transcript
DebateResult(evaluation) ==
    [participants |-> participants, moderator_stats |-> moderator_stats,
     position_changes |-> position_changes_log, transcript |-> full_transcript,
     evaluation |-> evaluation]

\* the generator ends with an exception: the step raises it, the run is exhausted
Raises == pc' = "done" /\ ret' = "raised"

\* the voters that are polled: not vetoed, with a candidate to vote for
Polled(ps) == {i \in Active(ps) : Len(Candidates(ps, i)) > 0}

\* base.py 445-447, 635-645: the rounds are over, or the debate is no longer active:
\* _evaluate, save_results, and debate_finished is yielded; a judgment of a type the result
\* models reject, or a failure to write the file, ends the run with an exception
FinishDebate ==
    /\ pc = "round_head"
    /\ ~(round_num < settings.total_rounds /\ debate_active)
    /\ \E kinds \in (IF incidents = 0 THEN {[i \in 1..N |-> "default"]}
                     ELSE [1..N -> VoteKinds]),
          verdict \in (IF incidents = 0 THEN {"dict"} ELSE JudgeVerdicts),
          written \in (IF incidents = 0 THEN {TRUE} ELSE BOOLEAN) :
         LET spent_votes == Spent(Polled(participants), kinds, "default")
             spent == spent_votes + (IF verdict # "dict" THEN 1 ELSE 0)
                                  + (IF written THEN 0 ELSE 1)
             e == PollFrom([NoVotes EXCEPT !.trace = trace], 1, kinds, participants,
                           interventions)
             judged == IF HasModerator THEN Append(e.trace, Call("judge", ModAuthor, 0))
                       ELSE e.trace
             section == EvaluationSection(e, IF HasModerator THEN {verdict} ELSE {},
                                          participants, interventions)
         IN
         /\ \A i \in (1..N) \ Polled(participants) : kinds[i] = "default"
         /\ ~HasModerator => verdict = "dict"
         /\ spent <= incidents
         /\ incidents' = incidents - spent
         /\ ev' = e
         /\ IF e.raised
            THEN /\ verdict = "dict" /\ written
                 /\ \A i \in 1..N : \A k \in 1..(i - 1) :
                        kinds[k] = "illtyped" => kinds[i] = "default"
                 /\ trace' = e.trace
                 /\ Raises
                 /\ UNCHANGED <<evaluation_data, result_path>>
            ELSE IF verdict = "illtyped"
            THEN /\ written
                 /\ trace' = judged
                 /\ Raises
                 /\ UNCHANGED <<evaluation_data, result_path>>
            ELSE /\ evaluation_data' = section
                 /\ IF written
                    THEN /\ result_path' = {DebateResult(section)}
                         /\ trace' = judged \o <<Call("evaluation_set", NoAuthor, 0),
                                                 Call("save_results", NoAuthor, 1),
                                                 Yield("debate_finished", NoAuthor, 0)>>
                         /\ Returns("debate_finished")
                         /\ pc' = "finished"
                    ELSE /\ trace' = judged \o <<Call("evaluation_set", NoAuthor, 0),
                                                 Call("save_results", NoAuthor, 0)>>
                         /\ Raises
                         /\ UNCHANGED result_path
    /\ UNCHANGED <<participants, moderator, interventions, full_transcript, moderator_stats,
                   position_changes_log, accumulated_system_cost, settings,
                   round_num, turn_num, p_idx, debate_active, pend,
                   decideVars, evalVars, otherVars>>

\* base.py 645, 652-655: the generator returns after its last yield, step returns None
RunEnds ==
    /\ pc = "finished"
    /\ pc' = "done"
    /\ Returns("None")
    /\ UNCHANGED <<debateVars, round_num, turn_num, p_idx, debate_active, pend, ev,
                   trace, incidents, result_path, decideVars, evalVars, otherVars>>

\* step without `except StopIteration`
StepAfterDoneRaises ==
    /\ pc = "done"
    /\ Returns("raised")
    /\ UNCHANGED <<debateVars, genVars, trace, incidents, result_path, decideVars, evalVars, otherVars>>

\* base.py 647-655: step on the exhausted generator: next raises StopIteration, None
StepAfterDone ==
    /\ pc = "done"
    /\ Returns("None")
    /\ UNCHANGED <<debateVars, genVars, trace, incidents, result_path, decideVars, evalVars, otherVars>>

Next ==
    \/ StartRun \/ OpeningRemark
    \/ RoundStart \/ TurnStart \/ Summarize
    \/ SkipVetoed \/ SkipSanctioned \/ ActiveGuard
    \/ Moderate \/ ApplyStop \/ ApplyVeto \/ AfterVeto \/ ApplySanction \/ StrikeVeto
    \/ NoStrikeVeto \/ ApplySkip \/ ApplyLimit \/ ApplyNothing
    \/ AnswerOk \/ AnswerFails
    \/ CheckPositions \/ FinishDebate
    \/ RunEnds \/ StepAfterDone

Spec == Init /\ [][Next]_vars
\* every external call returns or raises, and the caller keeps calling step
FairSpec == Spec /\ WF_vars(Next)

-----------------------------------------------------------------------------
(* SpecSummarize: Debate._summarize_history (base.py 331-380) called at the start of a
   turn (base.py 460) on live transcripts of 1..MaxHistory entries *)

\* MEMORY_COMPRESSION_TURNS (base.py 332): the default 10 and smaller values
SummarizeLimits == {0, 2, 4, 5, 10}

\* what _record_intervention (base.py 327-329) has collected before the turn: the opening
\* remark, then the answers of the two participants in turn
HistoryOf(n, opening, ps) ==
    [k \in 1..n |->
        IF k = 1 THEN opening
        ELSE LET i == ((k - 2) % Len(ps)) + 1 IN
             AnswerBy(i, ps[i].name, 100 + k, CurrentPosition(ps[i]))]

SummarizeInit ==
    /\ IdleDecide /\ IdleEval /\ IdleOther
    /\ \E n \in 1..MaxHistory, limit \in SummarizeLimits, has_moderator \in BOOLEAN :
          /\ participants =
                [i \in 1..2 |->
                    Debater(NameOfNew(i, FALSE), MindsetOfNew(i), 60,
                            PositionOfNew(i, <<"A", "B">>), i)]
          /\ moderator = IF has_moderator
                         THEN {Moderator(ModeratorName, 100, TRUE, TRUE, TRUE, TRUE)}
                         ELSE {}
          /\ settings = [total_rounds |-> 1, total_turns |-> MaxHistory,
                         max_letters |-> 1000,
                         allowed_positions |-> <<"A", "B">>,
                         max_strikes |-> 3,
                         compression_turns |-> limit,
                         env |-> DefaultConfidenceEnv]
          /\ interventions = HistoryOf(n, OpeningIntervention, participants)
          /\ full_transcript = interventions
          /\ turn_num = 1 + ((n - 1) \div 2)
    /\ position_changes_log = <<>>
    /\ moderator_stats = NoStats
    /\ evaluation_data = EmptyEvaluation
    /\ accumulated_system_cost = 0
    /\ pc = "summarize" /\ round_num = 1 /\ p_idx = 0
    /\ debate_active = TRUE
    /\ pend = NoDecision(FALSE)
    /\ ev = NoVotes
    /\ ret = "turn_start" /\ trace = <<>> /\ incidents = 1 /\ result_path = {}

SummarizeNext == Summarize
SpecSummarize == SummarizeInit /\ [][SummarizeNext]_vars

-----------------------------------------------------------------------------
(* SpecBatch: run_batch.main (run_batch.py 420-463) and run_single_debate (401-417) *)

\* how run_single_debate ends: Debate(...) raises, a step of Debate.run raises (base.py
\* 657-670 re-raises), save_results raises, or Debate.run returns the path of the result
RunOutcomes == {"construction_fails", "stepping_fails", "persistence_fails", "completes"}

\* the stage of a running run_single_debate in which each failure happens
StageOfFailure(stage) ==
    CASE stage = "constructing" -> "construction_fails"
      [] stage = "stepping"     -> "stepping_fails"
      [] OTHER                  -> "persistence_fails"

RunStages == {"constructing", "stepping", "persisting"}
Running(i) == futs[i].state \in RunStages
NewRun == [state |-> "pending", debate_id |-> {}, res |-> {}, outcome |-> ""]

\* run_batch.py 441-444
BatchInit ==
    /\ IdleMain /\ IdleDecide /\ IdleEval /\ IdleCall
    /\ \E reps \in 1..MaxReps, parallel \in BOOLEAN, workers \in 1..MaxWorkers :
          /\ batch = [reps |-> reps, parallel |-> parallel, workers |-> workers,
                      clock |-> 0, pc |-> "runs"]
          /\ ~parallel => workers = 1
          /\ futs = [i \in 1..reps |-> NewRun]
    /\ successful = <<>>
    /\ report = {}

\* run_batch.py 448-452, 457-458: run i starts, in submission order: when a worker of
\* the pool is free, or in the sequential loop when the result of run i - 1 is in
RunSingleDebateStarts(i) ==
    /\ batch.pc = "runs" /\ futs[i].state = "pending"
    /\ \A k \in 1..(i - 1) : futs[k].state # "pending"
    /\ IF batch.parallel
       THEN Cardinality({k \in DOMAIN futs : Running(k)}) < batch.workers
       ELSE \A k \in 1..(i - 1) : futs[k].state = "collected"
    /\ futs' = [futs EXCEPT ![i].state = "constructing"]
    /\ UNCHANGED <<batch, successful, report, mainVars, decideVars, evalVars, callVars>>

\* run_batch.py 406-412 and base.py 73: Debate(...) returns; debate_id is the time of
\* construction to the microsecond, which two threads may read as the same value
DebateConstructed(i) ==
    /\ futs[i].state = "constructing"
    /\ \E id \in (IF \E k \in DOMAIN futs : Running(k) /\ futs[k].debate_id = {batch.clock}
                  THEN {batch.clock, batch.clock + 1} ELSE {batch.clock + 1}) :
         /\ futs' = [futs EXCEPT ![i].state = "stepping", ![i].debate_id = {id}]
         /\ batch' = [batch EXCEPT !.clock = id]
    /\ UNCHANGED <<successful, report, mainVars, decideVars, evalVars, callVars>>

\* base.py 635-644: the steps of the debate are over, save_results is next
DebateStepped(i) ==
    /\ futs[i].state = "stepping"
    /\ futs' = [futs EXCEPT ![i].state = "persisting"]
    /\ UNCHANGED <<batch, successful, report, mainVars, decideVars, evalVars, callVars>>

\* a failure of a run that leaves run_single_debate and ends the batch
RunSingleDebateFailsBatch(i) ==
    /\ Running(i)
    /\ futs' = [k \in DOMAIN futs |->
                 IF k = i
                 THEN [futs[k] EXCEPT !.state = "collected", !.outcome = StageOfFailure(futs[i].state)]
                 ELSE IF futs[k].state = "pending"
                      THEN [futs[k] EXCEPT !.state = "collected"] ELSE futs[k]]
    /\ UNCHANGED <<batch, successful, report, mainVars, decideVars, evalVars, callVars>>

\* run_batch.py 415-417: any exception of the run is caught, the result is None
RunSingleDebateFails(i) ==
    /\ Running(i)
    /\ futs' = [futs EXCEPT ![i].state = "finished", ![i].res = {},
                            ![i].outcome = StageOfFailure(futs[i].state)]
    /\ UNCHANGED <<batch, successful, report, mainVars, decideVars, evalVars, callVars>>

\* run_batch.py 413-414 and base.py 851-852, 937-940: the result is written to
\* <session folder>/<debate_id>.json and the path is returned
RunSingleDebateCompletes(i) ==
    /\ futs[i].state = "persisting"
    /\ futs' = [futs EXCEPT ![i].state = "finished", ![i].res = futs[i].debate_id,
                            ![i].outcome = "completes"]
    /\ UNCHANGED <<batch, successful, report, mainVars, decideVars, evalVars, callVars>>

\* run_batch.py 453-455, 458-459: `if res := ...: successful.append(res)`, for the
\* futures in the order they complete, or for the run that just returned
CollectResult(i) ==
    /\ batch.pc = "runs" /\ futs[i].state = "finished"
    /\ futs' = [futs EXCEPT ![i].state = "collected"]
    /\ successful' = IF futs[i].res # {} THEN Append(successful, The(futs[i].res))
                     ELSE successful
    /\ UNCHANGED <<batch, report, mainVars, decideVars, evalVars, callVars>>

\* run_batch.py 461-462
GenerateReport ==
    /\ batch.pc = "runs"
    /\ \A i \in DOMAIN futs : futs[i].state = "collected"
    /\ report' = {successful}
    /\ batch' = [batch EXCEPT !.pc = "done"]
    /\ UNCHANGED <<futs, successful, mainVars, decideVars, evalVars, callVars>>

BatchNext ==
    \/ \E i \in DOMAIN futs :
          \/ RunSingleDebateStarts(i) \/ DebateConstructed(i) \/ DebateStepped(i)
          \/ RunSingleDebateFails(i) \/ RunSingleDebateCompletes(i) \/ CollectResult(i)
    \/ GenerateReport

SpecBatch == BatchInit /\ [][BatchNext]_vars

-----------------------------------------------------------------------------
(* SpecCall: Participant._execute_llm_call (participant.py 514-547) with _switch_brain
   (478-512) and _resolve_provider_settings (445-476) *)

BrainType == {"gemini", "openai", "deepseek", "claude"}

\* participant.py 520, 543: `if attempts < 3`
MaxRetries == 3

\* provider_config lists the brains `config`; `keyed` are the brains for which
\* _resolve_provider_settings gives a key that is set and is not "CHANGE-ME" (from
\* provider_config or from the environment); `allowed` is AVAILABLE_BRAINS
ProviderSettings ==
    [config : {{}, {"gemini", "claude"}},
     keyed : SUBSET BrainType,
     allowed : {BrainType, {"openai"}, {"gemini", "deepseek"}}]

HasKey(b) == b \in providers.keyed

\* the candidates of _switch_brain (participant.py 479-500)
SwitchCandidates(old) ==
    LET configured == {b \in providers.config \ {old} : HasKey(b)} IN
    IF configured # {} THEN configured ELSE providers.allowed \ {old}

\* participant.py 519-521, 542-544: one more attempt is allowed and _switch_brain finds
\* a candidate
Retries == attempts < MaxRetries /\ SwitchCandidates(brain) # {}

CallInit ==
    /\ IdleMain /\ IdleDecide /\ IdleEval /\ IdleBatch
    /\ brain \in BrainType
    /\ providers \in ProviderSettings
    /\ attempts = 0
    /\ llm = [pc |-> "loop", iterations |-> 0, completions |-> 0]

\* participant.py 508 and 521-523, 544-546: random.choice(candidates), attempts += 1
SwitchBrain ==
    /\ brain' \in SwitchCandidates(brain)
    /\ attempts' = attempts + 1

\* a failed completion that switches the brain and retries without counting the attempt
CompletionFailsUncounted ==
    /\ llm.pc = "loop" /\ HasKey(brain)
    /\ SwitchCandidates(brain) # {}
    /\ brain' \in SwitchCandidates(brain)
    /\ attempts' = attempts
    /\ llm' = [llm EXCEPT !.iterations = Min(@ + 1, MaxRetries + 2),
                          !.completions = Min(@ + 1, MaxRetries + 2)]
    /\ UNCHANGED <<providers, mainVars, decideVars, evalVars, batchVars>>

\* participant.py 519-523: no usable key, the brain is switched and the loop goes on
NoKeySwitches ==
    /\ llm.pc = "loop" /\ ~HasKey(brain)
    /\ Retries
    /\ SwitchBrain
    /\ llm' = [llm EXCEPT !.iterations = @ + 1]
    /\ UNCHANGED <<providers, mainVars, decideVars, evalVars, batchVars>>

\* participant.py 519-524: no usable key and no retry: the zero-cost placeholder
NoKeyPlaceholder ==
    /\ llm.pc = "loop" /\ ~HasKey(brain)
    /\ ~Retries
    /\ llm' = [llm EXCEPT !.pc = "placeholder", !.iterations = @ + 1]
    /\ UNCHANGED <<brain, attempts, providers, mainVars, decideVars, evalVars, batchVars>>

\* participant.py 526-541: completion and completion_cost return
CompletionReturns ==
    /\ llm.pc = "loop" /\ HasKey(brain)
    /\ llm' = [llm EXCEPT !.pc = "returned", !.iterations = @ + 1, !.completions = @ + 1]
    /\ UNCHANGED <<brain, attempts, providers, mainVars, decideVars, evalVars, batchVars>>

\* participant.py 542-546: the completion raises, the brain is switched, the loop goes on
CompletionFailsSwitches ==
    /\ llm.pc = "loop" /\ HasKey(brain)
    /\ Retries
    /\ SwitchBrain
    /\ llm' = [llm EXCEPT !.iterations = @ + 1, !.completions = @ + 1]
    /\ UNCHANGED <<providers, mainVars, decideVars, evalVars, batchVars>>

\* participant.py 542-547: the completion raises and no retry is left: `raise e`
CompletionFailsRaises ==
    /\ llm.pc = "loop" /\ HasKey(brain)
    /\ ~Retries
    /\ llm' = [llm EXCEPT !.pc = "raised", !.iterations = @ + 1, !.completions = @ + 1]
    /\ UNCHANGED <<brain, attempts, providers, mainVars, decideVars, evalVars, batchVars>>

CallNext ==
    \/ NoKeySwitches \/ NoKeyPlaceholder
    \/ CompletionReturns \/ CompletionFailsSwitches \/ CompletionFailsRaises

SpecCall == CallInit /\ [][CallNext]_vars
\* the provider library returns or raises: an iteration of the loop does not hang
FairSpecCall == SpecCall /\ WF_vars(CallNext)

-----------------------------------------------------------------------------
(* Properties of Debate.step and Debate.run_generator (Spec) *)

\* the events yielded so far, in order
Yields == SelectSeq(trace, LAMBDA e : e.yield)
\* the events and calls a step adds to the trace
NewEvents == SubSeq(trace', Len(trace) + 1, Len(trace'))
\* the entries of a transcript authored by participant i
AuthoredIn(history, i) == {k \in 1..Len(history) : history[k].participant = i}
\* the author of the opening remark
OpeningAuthor == IF HasModerator THEN ModAuthor ELSE NoAuthor

\* C1: once the run is exhausted, a call of step returns None, raises nothing and leaves
\* the debate as it is: transcript, full_transcript, moderator counters, participants,
\* evaluation and the persisted result are the same before and after the call.
C1_StepAfterDoneIsNoop ==
    [][pc = "done" => /\ ret' = "None"
                      /\ pc' = "done"
                      /\ UNCHANGED <<debateVars, result_path, trace>>]_vars

\* a step was made on an exhausted run (the step before it had raised) and returned None
C1_SteppedAfterDone ==
    pc = "done" /\ ret = "None" /\ result_path = {} /\ Len(full_transcript) > 1

\* C2: when the run is exhausted, debate_finished has been emitted exactly once, as the
\* last event, the evaluation is populated and the result is persisted.
C2_EndsWithDebateFinished ==
    pc = "done" =>
        /\ Len(Yields) > 0
        /\ Last(Yields).type = "debate_finished"
        /\ Cardinality({k \in 1..Len(Yields) : Yields[k].type = "debate_finished"}) = 1
        /\ evaluation_data # EmptyEvaluation
        /\ result_path # {}

\* C3: the first event of a run is initial_state, the second the opening remark, which no
\* round_start, turn_start, answer or external call precedes; the opening remark is by
\* the moderator if there is one and by no participant otherwise; it is the first entry
\* of full_transcript for ever, and the only entry of both transcripts when it is emitted
\* (it stays the first entry of the live transcript until a compression puts the summary
\* before it).
C3_OpeningRemarkFirst ==
    /\ Len(trace) >= 1 => trace[1] = Yield("initial_state", NoAuthor, 0)
    /\ Len(trace) >= 2 => trace[2] = Yield("intervention", OpeningAuthor, 0)
    /\ Len(trace) >= 2 <=> Len(full_transcript) >= 1
    /\ Len(full_transcript) >= 1 =>
          /\ full_transcript[1].kind = "opening"
          /\ full_transcript[1].participant = OpeningAuthor
          /\ \A k \in 2..Len(full_transcript) : full_transcript[k].kind # "opening"
    /\ Len(trace) = 2 => interventions = full_transcript /\ Len(interventions) = 1
    /\ (Len(interventions) >= 1 /\ accumulated_system_cost = 0) =>
          interventions[1] = full_transcript[1]

\* a moderated debate in which participants have answered after the opening remark
C3_OpenedByModerator ==
    /\ HasModerator /\ Len(Yields) >= 4
    /\ full_transcript[1].participant = ModAuthor
    /\ \E k \in 2..Len(full_transcript) : full_transcript[k].kind = "answer"

\* C5: no step changes a participant's is_vetoed from true to false.
C5_VetoIsOneWay ==
    [][\A i \in DOMAIN participants :
          participants[i].is_vetoed => participants'[i].is_vetoed]_vars

\* a run that went on to its end, through later turns, position evaluations and the
\* finalization, with a participant vetoed for its strikes
C5_VetoedUntilTheEnd ==
    /\ pc = "done" /\ result_path # {}
    /\ \E i \in DOMAIN participants :
          /\ participants[i].is_vetoed
          /\ participants[i].veto_reason = {"Max Strikes"}
          /\ \E k \in 1..Len(trace) : trace[k].type = "veto" /\ trace[k].who = i /\
                \E m \in (k + 1)..Len(trace) : trace[m].type = "turn_start"

\* C6: once a participant is vetoed, no step appends an intervention it authored to
\* transcript or full_transcript, and no moderator decision and no generation call is
\* made for its turn; a participant vetoed as the current speaker does not answer.
C6_VetoedNeverSpeaks ==
    [][\A i \in DOMAIN participants :
          participants[i].is_vetoed =>
             /\ AuthoredIn(full_transcript', i) = AuthoredIn(full_transcript, i)
             /\ Cardinality(AuthoredIn(interventions', i))
                   <= Cardinality(AuthoredIn(interventions, i))
             /\ \A k \in 1..Len(NewEvents) :
                   NewEvents[k].type \in {"decide", "judgment", "answer"}
                      => NewEvents[k].who # i]_vars

\* a participant was vetoed while it was the current speaker, and the run went on to
\* another participant's answer
C6_VetoedAsCurrentSpeaker ==
    \E i \in DOMAIN participants :
       /\ participants[i].is_vetoed
       /\ \E k \in 1..Len(trace) :
             /\ trace[k] = Yield("veto", i, i)
             /\ \E m \in (k + 1)..Len(trace) : trace[m].type = "answer"

\* C8: no sequence of moderator actions leaves fewer than two participants that are
\* not vetoed.
C8_NeverCollapses ==
    participants # <<>> => ActiveCount(participants) >= 2

\* the events and calls that may follow a STOP
AfterStopEvents == {"check_position", "vote", "judge", "evaluation_set", "save_results",
                    "debate_finished"}

\* C9: the step in which the moderator decides STOP records the moderator's intervention
\* and adds exactly one to the stops counter, and this is the only way the counter
\* changes; after it nothing is appended to the transcripts, no counter changes, and the
\* only events and calls are the position evaluation, the votes, the judge, the
\* persistence and debate_finished: no answer, decision, turn_start or round_start.
C9_StopEndsDebate ==
    [][/\ (pend'.action = STOP /\ pend.action # STOP) =>
             moderator_stats'.stops = moderator_stats.stops + 1
       /\ moderator_stats'.stops # moderator_stats.stops =>
             /\ moderator_stats' = [moderator_stats EXCEPT !.stops = @ + 1]
             /\ pend'.action = STOP /\ pend'.msg # {}
             /\ The(pend'.msg).action = STOP /\ The(pend'.msg).participant = ModAuthor
             /\ full_transcript' = Append(full_transcript, The(pend'.msg))
             /\ interventions' = Append(interventions, The(pend'.msg))
       /\ moderator_stats.stops >= 1 =>
             /\ \A k \in 1..Len(NewEvents) : NewEvents[k].type \in AfterStopEvents
             /\ UNCHANGED <<full_transcript, interventions, moderator_stats>>
             /\ pc' \in {"turn_head", "round_head", "finished", "done"}]_vars

\* a debate stopped before its last round, that ran to its end
C9_StoppedEarly ==
    /\ pc = "done" /\ ret = "None" /\ result_path # {}
    /\ moderator_stats.stops = 1
    /\ round_num < settings.total_rounds

-----------------------------------------------------------------------------
(* Properties of Moderator.decide_intervention (SpecDecide) *)

\* the capability flag an action needs
Granted(self, action) ==
    CASE action = VETO               -> self.allowed_to_veto_participant
      [] action \in {SANCTION, SKIP} -> self.allowed_to_skip_turn
      [] action = STOP               -> self.allowed_to_stop_debate
      [] action = INTERVENE          -> self.allowed_to_intervene_with_own_position
      [] OTHER                       -> TRUE

\* the judgment is VETO and two or fewer participants are active
VetoAmongFew == JudgedAs(VETO) /\ The(dIn).active <= 2

\* C7 as stated: a VETO judgment with activeCount <= 2 gives INTERVENE with a non-null
\* intervention carrying the disclaimer, whatever the capability flags.
C7_AlwaysIntervene ==
    VetoAmongFew =>
       /\ The(dOut).action = INTERVENE
       /\ The(dOut).msg # {}
       /\ The(The(dOut).msg).disclaimer

\* C7: a VETO judgment with activeCount <= 2 never gives VETO. A moderator that may veto
\* returns INTERVENE with a non-null intervention carrying the disclaimer; one that may
\* not returns what the capability downgrades give, without disclaimer: SANCTION if it
\* may skip turns, else INTERVENE if it may intervene, else NONE with no intervention.
C7_VetoForcedDown ==
    VetoAmongFew =>
       LET self == The(dIn).self
           out  == The(dOut)
       IN /\ out.action # VETO
          /\ self.allowed_to_veto_participant =>
                /\ out.action = INTERVENE /\ out.msg # {}
                /\ The(out.msg).disclaimer /\ The(out.msg).action = INTERVENE
          /\ ~self.allowed_to_veto_participant =>
                /\ out.action = (IF self.allowed_to_skip_turn THEN SANCTION
                                 ELSE IF self.allowed_to_intervene_with_own_position
                                      THEN INTERVENE ELSE NONE)
                /\ out.action = NONE <=> out.msg = {}
                /\ out.msg # {} => ~The(out.msg).disclaimer

\* a moderator that may veto judged VETO with exactly two active participants
C7_ForcedDownAtTwo ==
    /\ VetoAmongFew /\ The(dIn).active = 2
    /\ The(dIn).self.allowed_to_veto_participant
    /\ The(dOut).action = INTERVENE
    /\ The(The(dOut).msg).disclaimer

\* C10: the action decide returns is NONE, LIMIT, or one the moderator's flags grant.
C10_ActionIsGranted ==
    Decided => Granted(The(dIn).self, The(dOut).action)

-----------------------------------------------------------------------------
(* Properties of Participant.check_change_position (SpecEval) *)

\* C4: the confidence of a participant, and every entry of its confidence history, is
\* between 0 and 1 after construction and after every position evaluation.
C4_ConfidenceInUnitInterval ==
    \A p \in eP :
       /\ 0 <= p.confidence_score /\ p.confidence_score <= 100
       /\ \A k \in 1..Len(p.confidence_history) :
             0 <= p.confidence_history[k] /\ p.confidence_history[k] <= 100

-----------------------------------------------------------------------------
(* Further properties of Moderator.decide_intervention (SpecDecide) *)

\* the last entry of the history handed to decide, and whether it is longer than
\* global_max_letters + 100
LastEntry == Last(The(dIn).history)
LastIsTooLong == LastEntry.len > The(dIn).gmax + 100

\* C11: with no entry beyond the opening line, or with a last entry by no participant
\* (the System) or by the moderator itself, decide returns (NONE, "", "", None), issues
\* no external judgment call and stores no limit in any participant.
C11_NoSelfOrSystemModeration ==
    (Decided /\ (\/ Len(The(dIn).history) <= 1
                 \/ LastEntry.participant \in {NoAuthor, ModAuthor}))
       => /\ The(dOut).action = NONE /\ The(dOut).target = "" /\ The(dOut).reason = ""
          /\ The(dOut).msg = {}
          /\ ~The(dOut).called
          /\ The(dOut).new_limit = {}

\* decide was called after a skip line of the System, with a judgment that would have
\* been VETO had it been asked for
C11_AfterSystemLine ==
    /\ Decided /\ Len(The(dIn).history) = 3
    /\ LastEntry.participant = NoAuthor
    /\ The(dIn).j = [kind |-> "ok", token |-> VETO]
    /\ The(dIn).active = MaxActive
    /\ The(dOut).action = NONE /\ ~The(dOut).called

\* C12: decide returns LIMIT, and stores a limit in a participant, only when the last
\* entry is longer than global_max_letters + 100.
C12_LimitOnlyWhenTooLong ==
    (Decided /\ (The(dOut).action = LIMIT \/ The(dOut).new_limit # {})) => LastIsTooLong

\* C13: the target of a result other than NONE is the author of the last entry, except
\* for SKIP, whose target is the next speaker.
C13_TargetIsLastSpeaker ==
    (Decided /\ The(dOut).action # NONE) =>
       The(dOut).target = (IF The(dOut).action = SKIP THEN The(dIn).next_speaker
                           ELSE SpeakerName(LastEntry))

-----------------------------------------------------------------------------
(* Properties of the answer generation in Debate.run_generator (Spec) *)

\* C14: a generation attempt of participant i uses its one-shot limit when it has one
\* (the global limit otherwise), and the one-shot limit is None after the attempt,
\* whether the generation succeeded or failed.
C14_LimitConsumedByAttempt ==
    [][\A i \in DOMAIN participants : \A k \in 1..Len(NewEvents) :
          (NewEvents[k].type = "answer" /\ NewEvents[k].who = i) =>
             /\ NewEvents[k].arg = (IF participants[i].next_turn_char_limit # {}
                                    THEN The(participants[i].next_turn_char_limit)
                                    ELSE settings.max_letters)
             /\ participants'[i].next_turn_char_limit = {}]_vars

\* the step is a generation attempt that failed: the call was made, nothing is yielded
FailedAnswer == Len(NewEvents) = 1 /\ NewEvents[1].type = "answer"

\* C15: a failed answer generation does not leave step as an error and does not end the
\* run; nothing is appended to transcript or full_transcript and nothing else of the
\* debate changes; the run goes on with the next participant of the turn, or with the
\* end of the turn after the last one, as it does after a skipped participant.
C15_FailureIsSkipped ==
    [][FailedAnswer =>
          /\ ret' = ret /\ ret' # "raised" /\ pc' # "done"
          /\ UNCHANGED <<interventions, full_transcript>>
          /\ UNCHANGED <<participants, moderator_stats, position_changes_log,
                         evaluation_data, debate_active, round_num, turn_num>>
          /\ IF NewEvents[1].who < N
             THEN pc' = "participant" /\ p_idx' = NewEvents[1].who
             ELSE pc' = "turn_head"]_vars

\* a generation failed, a later participant answered, and the run ended with the result
\* persisted
C15_DebateWentOn ==
    /\ pc = "done" /\ result_path # {}
    /\ \E k \in 1..(Len(trace) - 1) :
          /\ trace[k].type = "answer" /\ ~trace[k + 1].yield
          /\ \E m \in (k + 1)..Len(trace) :
                /\ trace[m].yield /\ trace[m].type = "intervention"
                /\ trace[m].who \notin {NoAuthor, ModAuthor, trace[k].who}

-----------------------------------------------------------------------------
(* Properties of Debate._summarize_history (SpecSummarize, Spec) *)

\* the step is a run of _summarize_history in which a summarization call succeeded
Compressed == pc = "summarize" /\ NewEvents = <<Call("summarize", NoAuthor, 1)>>

C17_NeverLonger ==
    [][pc = "summarize" => Len(interventions') <= Len(interventions)]_vars

-----------------------------------------------------------------------------
(* Properties of Debate.full_transcript (Spec) *)

\* the authors of the interventions yielded so far, in order
YieldedAuthors(t) ==
    LET y == SelectSeq(t, LAMBDA e : e.yield /\ e.type = "intervention") IN
    [k \in 1..Len(y) |-> y[k].who]

\* C18: full_transcript is append-only and never compacted: no step removes, replaces or
\* reorders one of its entries; history compression leaves it unchanged; every
\* intervention recorded by a step is appended to both transcript and full_transcript;
\* full_transcript lists the yielded interventions in the order of recording, and the
\* persisted transcript is full_transcript.
C18_FullTranscriptAppendOnly ==
    [][LET old == Len(full_transcript)
           added == SubSeq(full_transcript', old + 1, Len(full_transcript')) IN
       /\ Len(full_transcript') >= old
       /\ SubSeq(full_transcript', 1, old) = full_transcript
       /\ (pc = "summarize" => full_transcript' = full_transcript)
       /\ (pc # "summarize" => interventions' = interventions \o added)
       /\ YieldedAuthors(trace') =
             [k \in 1..Len(full_transcript') |-> full_transcript'[k].participant]
       /\ (result_path' # {} => The(result_path').transcript = full_transcript')]_vars

\* a compression dropped the opening remark from the live transcript; the run ended and
\* the persisted transcript still starts with it
C18_PersistedAfterCompression ==
    /\ pc = "done" /\ result_path # {}
    /\ accumulated_system_cost > 0
    /\ \A k \in DOMAIN interventions : interventions[k] # full_transcript[1]
    /\ Len(full_transcript) >= 6
    /\ The(result_path).transcript = full_transcript
    /\ The(result_path).transcript[1].kind = "opening"

-----------------------------------------------------------------------------
(* Further properties of Participant.check_change_position (SpecEval) *)

\* the position a participant record argues for
PositionOf(q) == IF q.final_position = {} THEN q.original_position ELSE The(q.final_position)

\* the last evaluation computed a new confidence, and it is below the flip threshold
BroughtBelowThreshold ==
    /\ eOut # {}
    /\ LET nh == Len(The(eOut).before.confidence_history) IN
       /\ Len(The(eP).confidence_history) > nh
       /\ The(eP).confidence_history[nh + 1] < The(eEnv).env.flip_threshold

\* the entries of the allowed positions that differ from the position before the evaluation
OtherEntries ==
    {k \in DOMAIN The(eEnv).allowed_positions :
        The(eEnv).allowed_positions[k] # PositionOf(The(eOut).before)}

\* C19: when an evaluation brings the confidence below the flip threshold and exactly one
\* allowed position differs from the current one, the participant flips to exactly that
\* position, with one external call (the judgment) and no choice call, whatever the
\* choice call or the random pick would have given.
C19_SingleAlternativeFlip ==
    (BroughtBelowThreshold /\ Cardinality(OtherEntries) = 1) =>
       /\ The(eOut).has_changed
       /\ The(eOut).new_position = The(eEnv).allowed_positions[The(OtherEntries)]
       /\ PositionOf(The(eP)) = The(eEnv).allowed_positions[The(OtherEntries)]
       /\ The(eOut).calls = 1

\* with allowed positions A, B a participant on A flipped to B although a choice call
\* would have raised
C19_FlippedWithoutChoice ==
    /\ BroughtBelowThreshold
    /\ The(eEnv).allowed_positions = <<"A", "B">>
    /\ PositionOf(The(eOut).before) = "A"
    /\ The(eOut).outcome.pick_kind = "raise"
    /\ The(eOut).has_changed /\ The(eOut).new_position = "B" /\ The(eOut).calls = 1

\* C20: whenever an evaluation leaves the new confidence below the flip threshold, it
\* reports has_changed = true and the position after it differs from the position
\* before it, for allowed positions of any size >= 1 and any outcome of the external
\* calls.
C20_BelowThresholdFlips ==
    BroughtBelowThreshold =>
       /\ The(eOut).has_changed
       /\ PositionOf(The(eP)) # PositionOf(The(eOut).before)

-----------------------------------------------------------------------------
(* Properties of Debate._check_positions and position_changes_log (Spec) *)

\* the entries of position_changes_log that carry the name of participant i
EntriesOf(i) == SelectSeq(position_changes_log, LAMBDA e : e.name = participants[i].name)
DistinctNames == \A i, k \in DOMAIN participants : i # k => participants[i].name # participants[k].name

FlippedInStep == {i \in DOMAIN participants : participants'[i].final_position # participants[i].final_position}

-----------------------------------------------------------------------------
(* Properties of Debate._evaluate (Spec) *)

\* _evaluate has run: the generator is past the loops over the rounds
Aggregated == pc \in {"finished", "done"}

\* the external vote calls made by participant i
VoteCalls(i) == {k \in DOMAIN trace : ~trace[k].yield /\ trace[k].type = "vote" /\ trace[k].who = i}

\* the non-vetoed participants in roster order
ActiveInOrder == SelectSeq([i \in DOMAIN participants |-> i], LAMBDA i : ~participants[i].is_vetoed)

\* C22: at aggregation every non-vetoed participant is polled exactly once and gives one
\* score entry, a vetoed participant is never polled; the tally holds at most one vote
\* per non-vetoed participant; a voter without a parseable judgment gives no vote and no
\* best/worst index, and the aggregation completes with the votes of the others.
C22_EveryActiveVoterPolledOnce ==
    Aggregated =>
       /\ ~ev.raised
       /\ Len(ev.participant_scores) = Len(ActiveInOrder)
       /\ \A k \in DOMAIN ev.participant_scores :
             ev.participant_scores[k].voter = participants[ActiveInOrder[k]].name
       /\ \A i \in DOMAIN participants :
             /\ Cardinality(VoteCalls(i)) <= 1
             /\ participants[i].is_vetoed => VoteCalls(i) = {}
             /\ i \in Polled(participants) => VoteCalls(i) # {}
       /\ Len(ev.votes) =
             Cardinality({k \in DOMAIN ev.participant_scores : ev.participant_scores[k].winner # {}})
       /\ Len(ev.best_id_votes) =
             Cardinality({k \in DOMAIN ev.participant_scores :
                             ev.participant_scores[k].best_intervention # {}})
       /\ Len(ev.worst_id_votes) =
             Cardinality({k \in DOMAIN ev.participant_scores :
                             ev.participant_scores[k].worst_intervention # {}})

\* C23: the consensus winner is a name with the maximal number of counted votes, and
\* among the names tied for the maximum the one whose first vote comes earliest in
\* voting (roster) order; there is a consensus exactly when a vote was counted.
C23_WinnerIsFirstMostVoted ==
    (Aggregated /\ result_path # {}) =>
       LET votes == ev.votes
           outcome == The(result_path).evaluation.global_outcome IN
       /\ (outcome = {}) <=> (Len(votes) = 0)
       /\ outcome # {} =>
             LET w == The(outcome).winner_name IN
             /\ \E k \in DOMAIN votes : votes[k] = w
             /\ \A k \in DOMAIN votes :
                   \/ Count(votes, w) > Count(votes, votes[k])
                   \/ /\ Count(votes, w) = Count(votes, votes[k])
                      /\ \E m \in 1..k : votes[m] = w
             /\ \A x \in DOMAIN The(outcome).vote_distribution :
                   The(outcome).vote_distribution[x] = Count(votes, x)

\* three voters voted X, X, Y and the persisted winner is X
C23_TwoToOne ==
    /\ Aggregated /\ result_path # {}
    /\ Len(ev.votes) = 3 /\ ev.votes[1] = ev.votes[2] /\ ev.votes[3] # ev.votes[1]
    /\ The(The(result_path).evaluation.global_outcome).winner_name = ev.votes[1]

\* two names tied with one vote each and the persisted winner is the one voted first
C23_TieGoesToFirstVote ==
    /\ Aggregated /\ result_path # {}
    /\ Len(ev.votes) = 2 /\ ev.votes[1] # ev.votes[2]
    /\ The(The(result_path).evaluation.global_outcome).winner_name = ev.votes[1]

\* C24: no voter's vote for itself enters the consensus: the winner counted for a voter
\* is never the voter's own name, whatever judgment the external call returns.
C24_NoSelfVote ==
    \A k \in DOMAIN ev.participant_scores :
        ev.participant_scores[k].winner # {ev.participant_scores[k].voter}

-----------------------------------------------------------------------------
(* Properties of run_batch.main (SpecBatch) *)

\* the runs whose result main has taken, and that completed
CollectedCompleted == {i \in DOMAIN futs : futs[i].state = "collected" /\ futs[i].outcome = "completes"}

\* C25: a run that fails at construction, stepping or persistence contributes no path
\* and does not stop the other runs; every run that completes contributes exactly one
\* path, in whatever order the runs complete; the summarizer is run once all runs have
\* ended, on exactly the successful paths.
C25_BatchIsolatesFailures ==
    /\ Len(successful) = Cardinality(CollectedCompleted)
    /\ \A k \in DOMAIN successful :
          Count(successful, successful[k]) =
             Cardinality({i \in CollectedCompleted : futs[i].debate_id = {successful[k]}})
    /\ \A i \in CollectedCompleted : \E k \in DOMAIN successful : futs[i].debate_id = {successful[k]}
    /\ report # {} => batch.pc = "done"
    /\ batch.pc = "done" =>
          /\ report = {successful}
          /\ \A i \in DOMAIN futs : futs[i].state = "collected" /\ futs[i].outcome \in RunOutcomes

\* a parallel batch of three runs ended: one run failed at persistence, two completed
\* in an order that is not the order of submission, and the report got both paths
C25_TwoOfThreeOutOfOrder ==
    /\ batch.pc = "done" /\ batch.parallel /\ batch.reps = 3
    /\ \E i \in DOMAIN futs : futs[i].outcome = "persistence_fails"
    /\ Len(successful) = 2 /\ successful[1] > successful[2]
    /\ report = {successful}

-----------------------------------------------------------------------------
(* Properties of Participant._execute_llm_call (FairSpecCall) *)

\* C26: a provider call never loops forever: an iteration that does not end the call
\* follows a failure (no usable key, or a completion that raised), switches to another
\* brain and counts one of at most 3 retries; so the call ends within 4 iterations, by
\* returning the completion, by raising the failure of a completion, or by returning the
\* placeholder when the brain has no usable key; a failure with no alternate candidate,
\* or after 3 retries, ends the call at once.
C26_CallEnds ==
    /\ [](attempts <= 3 /\ llm.iterations <= attempts + 1 /\ llm.completions <= llm.iterations)
    /\ [](llm.pc = "placeholder" => ~HasKey(brain))
    /\ [](llm.pc \in {"raised", "returned"} => HasKey(brain) /\ llm.completions >= 1)
    /\ [][llm.pc = "loop" =>
            /\ llm'.iterations = llm.iterations + 1
            /\ IF llm'.pc = "loop"
               THEN /\ attempts' = attempts + 1 /\ attempts < 3
                    /\ brain' # brain
                    /\ brain' \in providers.allowed \cup providers.config
               ELSE /\ attempts' = attempts /\ brain' = brain
                    /\ llm'.pc = "returned" \/ attempts = 3 \/ SwitchCandidates(brain) = {}
            /\ (attempts = 3 \/ SwitchCandidates(brain) = {}) => llm'.pc # "loop"]_vars
    /\ <>(llm.pc \in {"returned", "raised", "placeholder"})

\* a call that failed four times, each time on another brain, and raised the last failure
C26_RaisedAfterThreeRetries ==
    /\ llm.pc = "raised" /\ attempts = 3 /\ llm.iterations = 4 /\ llm.completions = 4

\* a call that ended with the placeholder after three switches between brains without key
C26_PlaceholderAfterThreeRetries ==
    /\ llm.pc = "placeholder" /\ attempts = 3 /\ llm.iterations = 4 /\ llm.completions = 0

-----------------------------------------------------------------------------
(* Properties of the moderator's actions in Debate.run_generator (Spec) *)

\* C27: when SANCTION was applied to the current speaker, the speaker's turn is skipped:
\* the run does not go on to the speaker's answer, whether or not the strike made the
\* speaker reach the maximum number of strikes.
C27_SanctionedSpeakerIsSkipped ==
    [][(pc \in {"after_sanction", "after_veto"} /\ pend.action = SANCTION /\ PendTarget = {Cur})
          => pc' # "answer"]_vars

\* the participants other than t are as they were
OthersUnchanged(t) == \A i \in DOMAIN participants : i # t => participants'[i] = participants[i]

\* C28: applying SANCTION to a resolved target t adds exactly one strike to t, sets its
\* skip_next_turn and adds exactly one to the sanctions counter; then, if the strikes of
\* t have reached the configured maximum (are not below it), t is vetoed with the
\* composite reason and the vetos counter grows by exactly one; if they have not,
\* is_vetoed and the vetos counter stay as they are.
C28_SanctionEffects ==
    [][/\ (pc = "apply" /\ pend.action = SANCTION /\ PendTarget # {}) =>
             LET t == The(PendTarget) IN
             /\ participants'[t] = [participants[t] EXCEPT !.strikes = @ + 1,
                                                           !.skip_next_turn = TRUE]
             /\ OthersUnchanged(t)
             /\ moderator_stats' = [moderator_stats EXCEPT !.sanctions = @ + 1]
             /\ pc' = "after_sanction" /\ pend' = pend
       /\ pc = "after_sanction" =>
             LET t == The(PendTarget) IN
             /\ participants[t].skip_next_turn /\ participants[t].strikes >= 1
             /\ OthersUnchanged(t)
             /\ IF participants[t].strikes >= settings.max_strikes
                THEN /\ participants'[t] = [participants[t] EXCEPT
                                              !.is_vetoed = TRUE, !.veto_reason = {"Max Strikes"}]
                     /\ moderator_stats' = [moderator_stats EXCEPT !.vetos = @ + 1]
                ELSE /\ participants'[t] = participants[t]
                     /\ moderator_stats' = moderator_stats]_vars

\* a participant got its second strike with a maximum of two: it is vetoed for the
\* strikes, after two sanctions and one veto
C28_SecondStrikeVetoes ==
    /\ settings.max_strikes = 2
    /\ moderator_stats.sanctions = 2 /\ moderator_stats.vetos = 1
    /\ \E i \in DOMAIN participants :
          /\ participants[i].strikes = 2 /\ participants[i].is_vetoed
          /\ participants[i].veto_reason = {"Max Strikes"}

\* the turn of the non-vetoed participant Cur comes
TurnComes == pc = "participant" /\ ~participants[Cur].is_vetoed

\* C29: skip_next_turn is one-shot. When the turn of a non-vetoed participant with the
\* flag comes, exactly one System skip intervention is recorded and yielded, the flag is
\* cleared, nothing else of the participants or the counters changes, neither a
\* moderator decision nor an answer generation happens, and the run goes on with the
\* next participant or the end of the turn. When the turn of a non-vetoed participant
\* without the flag comes, no skip intervention is recorded for it: the debate ends by
\* the active-count guard, or the moderator decides, or the participant answers.
C29_SkipIsOneShot ==
    [][/\ (TurnComes /\ participants[Cur].skip_next_turn) =>
             /\ NewEvents = <<Yield("intervention", NoAuthor, Cur)>>
             /\ ret' = "intervention"
             /\ interventions' = Append(interventions, SkipLine("skip_sanction"))
             /\ full_transcript' = Append(full_transcript, SkipLine("skip_sanction"))
             /\ participants' = [participants EXCEPT ![Cur].skip_next_turn = FALSE]
             /\ moderator_stats' = moderator_stats /\ debate_active' = debate_active
             /\ IF Cur < N THEN pc' = "participant" /\ p_idx' = Cur ELSE pc' = "turn_head"
       /\ (TurnComes /\ ~participants[Cur].skip_next_turn) =>
             /\ \A k \in DOMAIN NewEvents : NewEvents[k].who # NoAuthor
             /\ \A k \in DOMAIN interventions' :
                   k > Len(interventions) => interventions'[k].kind # "skip_sanction"
             /\ \/ ~debate_active' /\ pc' = "turn_head" /\ NewEvents = <<>>
                \/ Len(NewEvents) >= 1 /\ NewEvents[1] \in
                      {Call("decide", Cur, 0),
                       Call("answer", Cur, EffectiveLimit(participants[Cur], settings.max_letters))}]_vars

\* a sanctioned participant lost one turn to the System skip line and answered at its
\* following turn
C29_SkippedOnceThenAnswers ==
    /\ trace # <<>>
    /\ trace[Len(trace)].type = "answer" /\ ~trace[Len(trace)].yield
    /\ LET i == trace[Len(trace)].who
           skips == {k \in DOMAIN trace : trace[k] = Yield("intervention", NoAuthor, i)}
       IN /\ Cardinality(skips) = 1
          /\ \E k \in DOMAIN full_transcript : full_transcript[k].kind = "skip_sanction"
          /\ \E j \in DOMAIN trace : /\ trace[j].type = "sanction" /\ trace[j].who = i
                                     /\ \A k \in skips : j < k
          /\ ~participants[i].skip_next_turn

\* the events of the loop over the rounds, the turns and the participants
LoopEvents == {"round_start", "turn_start", "decide", "judgment", "answer", "intervention",
               "veto", "sanction"}

SkipPending == pc = "apply" /\ pend.action = SKIP

\* the effect of a SKIP on the current speaker: one more skip counted, the System skip line
\* recorded right after the moderator's intervention and yielded, no answer generated,
\* no participant changed, and the run goes on with the next participant of the roster
SkipsCurrentSpeaker ==
    /\ moderator_stats' = [moderator_stats EXCEPT !.skips = @ + 1]
    /\ interventions[Len(interventions)].participant = ModAuthor
    /\ interventions' = Append(interventions, SkipLine("skip_moderator"))
    /\ full_transcript' = Append(full_transcript, SkipLine("skip_moderator"))
    /\ NewEvents = <<Yield("intervention", NoAuthor, Cur)>>
    /\ participants' = participants
    /\ IF Cur < N THEN pc' = "participant" /\ p_idx' = Cur ELSE pc' = "turn_head"

\* C31: when the moderator's action is SKIP, the skips counter increases by exactly one,
\* a System skip line is recorded right after the moderator's intervention, the current
\* speaker generates no answer in this turn and its skip_next_turn is left unchanged, and
\* processing continues with the next participant of the roster.
C31_SkipSkipsCurrentSpeaker == [][SkipPending => SkipsCurrentSpeaker]_vars

\* the moderator's LIMIT is about to be applied
LimitPending == pc = "apply" /\ pend.action = LIMIT

\* the author of the entry the moderator judged, the one before the moderator's message
Judged == interventions[Len(interventions) - 1].participant

\* C32: a LIMIT is a silent penalty. The step that decides it records the moderator's
\* message and nothing else, and stores the one-shot limit in the last speaker; the step
\* that applies it increments the limits counter by one and no other counter, leaves
\* interventions and full_transcript as they were, yields nothing, changes no participant,
\* and goes on to the answer of the current speaker with the limit of the penalised
\* participant in place.
C32_LimitIsSilent ==
    [][/\ (pc = "participant" /\ pc' = "apply" /\ pend'.action = LIMIT) =>
             /\ interventions' = Append(interventions, The(pend'.msg))
             /\ full_transcript' = Append(full_transcript, The(pend'.msg))
             /\ The(pend'.msg).participant = ModAuthor
             /\ participants' = [participants EXCEPT
                   ![Last(interventions).participant].next_turn_char_limit =
                       {NewLimit(settings.max_letters)}]
             /\ moderator_stats' = moderator_stats
       /\ LimitPending =>
             /\ moderator_stats' = [moderator_stats EXCEPT !.limits = @ + 1]
             /\ interventions' = interventions
             /\ full_transcript' = full_transcript
             /\ NewEvents = <<>>
             /\ participants' = participants
             /\ participants[Judged].next_turn_char_limit = {NewLimit(settings.max_letters)}
             /\ pc' = "answer"]_vars

\* a LIMIT was applied: one limit counted, the penalised participant holds the limit, and
\* the last entry of both transcripts is still the moderator's message
C32_LimitApplied ==
    /\ pc = "answer" /\ pend.action = LIMIT
    /\ moderator_stats.limits = 1
    /\ Last(interventions).participant = ModAuthor
    /\ Last(full_transcript) = Last(interventions)
    /\ participants[Judged].next_turn_char_limit = {NewLimit(settings.max_letters)}

\* ---------------------------------------------------------------------------------
\* Properties of the end of a round in Debate.run_generator (Spec)
\* ---------------------------------------------------------------------------------

\* the positions in the trace of the evaluations of participant i at the end of round r
Evaluations(i, r) == {k \in DOMAIN trace : trace[k] = Call("check_position", i, r)}

\* round r is over: a later round is running, or the run is at the head of the rounds
\* or past it
RoundIsOver(r) == r < round_num \/ pc \in {"round_head", "finished", "done"}

\* the turns of the running round are over or the debate is no longer active
RoundEnds == pc = "turn_head" /\ ~(turn_num < settings.total_turns /\ debate_active)

\* the evaluations of the participants of `who`, in the order of the roster
RECURSIVE EvaluationsOf(_, _, _)
EvaluationsOf(i, who, r) ==
    IF i > N THEN <<>>
    ELSE (IF i \in who THEN <<Call("check_position", i, r)>> ELSE <<>>)
         \o EvaluationsOf(i + 1, who, r)

CompressionFails ==
    /\ pc = "summarize" /\ Len(interventions) > settings.compression_turns
    /\ \A k \in DOMAIN NewEvents : NewEvents[k] # Call("summarize", NoAuthor, 1)

\* C34: if every summarization candidate fails, or no candidate is configured, the
\* compression is a no-op: interventions and full_transcript are unchanged, no cost is
\* added to accumulated_system_cost, no error leaves the generator, and the turn goes on
\* with its first participant; nothing else of the debate changes either.
C34_FailedCompressionIsNoOp ==
    [][CompressionFails =>
          /\ interventions' = interventions
          /\ full_transcript' = full_transcript
          /\ accumulated_system_cost' = accumulated_system_cost
          /\ ret' = ret /\ ret' # "raised"
          /\ pc' = "participant" /\ p_idx' = 0
          /\ UNCHANGED <<participants, moderator_stats, position_changes_log, round_num,
                         turn_num, debate_active>>]_vars

\* a compression that was due has just failed: the live transcript is longer than the
\* threshold and still the full transcript, no cost was added, the turn is at its first
\* participant
C34_CompressionJustFailed ==
    /\ pc = "participant" /\ p_idx = 0
    /\ trace # <<>> /\ trace[Len(trace)] = Call("summarize", NoAuthor, 0)
    /\ Len(interventions) > settings.compression_turns
    /\ interventions = full_transcript
    /\ accumulated_system_cost = 0

\* ---------------------------------------------------------------------------------
\* Properties of the confidence reset in Participant.check_change_position (SpecEval)
\* ---------------------------------------------------------------------------------

\* the history of the participant grew by the entries `added` in the last evaluation
HistoryGained(added) == The(eP).confidence_history = The(eOut).before.confidence_history \o added

\* C35: on every flip the participant's confidence_score is set to the post-flip value,
\* which is strictly greater than the flip threshold for every configured pair of
\* threshold and post-flip value, and confidence_history gains exactly two entries in
\* that evaluation, the collapsed value and then the reset value; an evaluation whose
\* judgment call returned and that does not flip appends exactly one entry.
C35_FlipResetsAboveThreshold ==
    (eOut # {} /\ The(eOut).outcome.kind = "ok") =>
        LET env == The(eEnv).env
            collapsed == Clamp(The(eOut).before.confidence_score
                               + ScaledDelta(The(eOut).before, env, The(eOut).outcome.delta))
        IN IF The(eOut).has_changed
           THEN /\ The(eP).confidence_score = PostFlipConf(env)
                /\ The(eP).confidence_score > env.flip_threshold
                /\ collapsed < env.flip_threshold
                /\ HistoryGained(<<collapsed, PostFlipConf(env)>>)
           ELSE HistoryGained(<<collapsed>>)

\* ---------------------------------------------------------------------------------
\* Properties of the best and worst turns in Debate._evaluate (Spec)
\* ---------------------------------------------------------------------------------

\* idx is an index of the history that was evaluated
ValidTurn(idx) == idx \in 0..(Len(interventions) - 1)

\* the reference is the one to entry idx of the history that was evaluated
RefersTo(ref, idx) == ValidTurn(idx) /\ ref = InterventionReference(interventions, idx)

\* the scores that carry a reference to a best turn, to a worst turn
WithBest == {k \in DOMAIN ev.participant_scores : ev.participant_scores[k].best_intervention # {}}
WithWorst == {k \in DOMAIN ev.participant_scores : ev.participant_scores[k].worst_intervention # {}}

\* C36: a best-turn or worst-turn index outside [0, len(history)) gives no reference and
\* no entry in the tallies: the voter that named itself, whose best turn is len(history)
\* and whose worst turn is -1, carries no reference; the tallies hold one entry for each
\* reference, each a valid index; every reference of a voter and every global best and
\* worst reference is the entry of the evaluated history at a valid index, which is the
\* first most voted one of its tally.
C36_OnlyValidTurns ==
    Aggregated =>
       /\ \A k \in DOMAIN ev.participant_scores :
             LET s == ev.participant_scores[k] IN
             /\ s.winner = {s.voter} => s.best_intervention = {} /\ s.worst_intervention = {}
             /\ \A r \in s.best_intervention \cup s.worst_intervention : RefersTo(r, r.id)
       /\ Len(ev.best_id_votes) = Cardinality(WithBest)
       /\ Len(ev.worst_id_votes) = Cardinality(WithWorst)
       /\ \A k \in DOMAIN ev.best_id_votes : ValidTurn(ev.best_id_votes[k])
       /\ \A k \in DOMAIN ev.worst_id_votes : ValidTurn(ev.worst_id_votes[k])
       /\ \A o \in evaluation_data.global_outcome :
             /\ \A r \in o.best_intervention : RefersTo(r, MostCommon(ev.best_id_votes))
             /\ \A r \in o.worst_intervention : RefersTo(r, MostCommon(ev.worst_id_votes))
             /\ (o.best_intervention = {}) <=> (ev.best_id_votes = <<>>)
             /\ (o.worst_intervention = {}) <=> (ev.worst_id_votes = <<>>)

\* an evaluation with a voter whose indices were out of range and discarded, and a
\* global best and worst reference from the valid indices of another voter
C36_InvalidTurnDiscarded ==
    /\ pc = "finished"
    /\ \E k \in DOMAIN ev.participant_scores :
          ev.participant_scores[k].winner = {ev.participant_scores[k].voter}
    /\ \E o \in evaluation_data.global_outcome :
          o.best_intervention # {} /\ o.worst_intervention # {}

\* ---------------------------------------------------------------------------------
\* Properties of the moderator's entries in the full transcript (Spec)
\* ---------------------------------------------------------------------------------

\* the entries of the full transcript authored by the moderator, by a participant
ModeratorEntries == {k \in DOMAIN full_transcript : full_transcript[k].participant = ModAuthor}
ParticipantEntries == {k \in DOMAIN full_transcript : full_transcript[k].participant \in 1..N}

\* C37: in every reachable state the full transcript holds no two adjacent entries
\* authored by the moderator; every entry of the moderator but the opening one comes
\* right after the entry of a participant, so between two actions of the moderator a
\* participant has spoken and each participant intervention draws at most one action.
C37_ModeratorFollowsParticipant ==
    /\ \A k \in ModeratorEntries : (k + 1) \notin ModeratorEntries
    /\ \A k \in ModeratorEntries : k > 1 => (k - 1) \in ParticipantEntries
    /\ \A k \in ParticipantEntries :
          Cardinality({m \in ModeratorEntries :
                          m > k /\ \A j \in (k + 1)..(m - 1) : j \notin ParticipantEntries}) <= 1

\* the moderator opened the debate and acted twice after it, and one participant
\* intervention drew no action
C37_TwoModeratorActions ==
    /\ 1 \in ModeratorEntries
    /\ Cardinality(ModeratorEntries) >= 3
    /\ \E k \in ParticipantEntries :
          k < Len(full_transcript) /\ (k + 1) \notin ModeratorEntries

\* ---------------------------------------------------------------------------------
\* Properties of the targets of VETO and SANCTION in Debate.run_generator (Spec)
\* ---------------------------------------------------------------------------------

\* the strikes of the participants i..N, added up
RECURSIVE StrikesFrom(_)
StrikesFrom(i) == IF i > N THEN 0 ELSE participants[i].strikes + StrikesFrom(i + 1)

\* the participants that are vetoed
Vetoed == {i \in DOMAIN participants : participants[i].is_vetoed}

VetoOrSanctionApplies ==
    /\ pc \in {"apply", "after_sanction"}
    /\ pend.action \in {VETO, SANCTION}

\* C39: every VETO or SANCTION that is applied changes the state (is_vetoed, veto_reason,
\* strikes, skip_next_turn) of the participant who authored the last entry of the
\* transcript before the moderator's message, and of no other participant, also when
\* two participants of the roster have the same name.
C39_OnlyLastSpeakerIsPunished ==
    [][VetoOrSanctionApplies =>
          /\ \A i \in DOMAIN participants : i # Judged => participants'[i] = participants[i]
          /\ (pc = "apply" /\ pend.action = VETO) => participants'[Judged].is_vetoed
          /\ (pc = "apply" /\ pend.action = SANCTION) =>
                /\ participants'[Judged].strikes = participants[Judged].strikes + 1
                /\ participants'[Judged].skip_next_turn]_vars

\* ---------------------------------------------------------------------------------
\* Properties of the persisted result of Debate.save_results (Spec)
\* ---------------------------------------------------------------------------------

\* the best and worst references of the evaluation of a result: those of the voters and
\* those of the global outcome
ReferencesOf(evaluation) ==
    UNION {evaluation.participants[k].best_intervention
              \cup evaluation.participants[k].worst_intervention :
           k \in DOMAIN evaluation.participants}
    \cup UNION {o.best_intervention \cup o.worst_intervention : o \in evaluation.global_outcome}

\* C40: in every persisted DebateResult, also after the history was compressed, the id
\* of each best or worst reference of the evaluation is the index, in the persisted
\* transcript, of the entry that has the author and the text of the reference.
C40_ReferencesIndexPersistedTranscript ==
    \A result \in result_path : \A r \in ReferencesOf(result.evaluation) :
       /\ r.id \in 0..(Len(result.transcript) - 1)
       /\ result.transcript[r.id + 1] = r.text
       /\ SpeakerName(result.transcript[r.id + 1]) = r.participant

====
